---- MODULE Spec2Model ----
(***************************************************************************)
(* forge-bridge: the in-memory registry with orphan protection, the        *)
(* router's registry/entity handlers over the persistent store, and the    *)
(* server's connection tasks (handshake, replay, message loop, broadcast). *)
(*                                                                         *)
(* Two specifications share this module:                                   *)
(*   Spec      registry + router handlers + store (one handler per step)   *)
(*   SpecLive  connection tasks interleaving at their await points         *)
(***************************************************************************)
EXTENDS Integers, Sequences, FiniteSets, TLC

\* ------------------------------------------------------------------ bounds
MaxOps    == 3      \* requests handled in one behaviour of Spec
MaxKey    == 3      \* last uuid4 key handed out to a custom entry
MaxHolder == 2      \* last uuid4 id handed out to a layer / edge
MaxInput  == 5      \* hellos and frames read in one behaviour of SpecLive
MaxLog    == 3      \* rows of the events table in one behaviour of SpecLog
MaxClock  == 2      \* last value of the database clock in SpecLog
MaxUuid   == 4      \* last uuid4 handed out in one behaviour of SpecSess
MaxReq    == 2      \* calls of AsyncClient.request in one behaviour of SpecCli
MaxAttempts == 8    \* connection attempts in one behaviour of SpecCli

\* ------------------------------------------------------- values and helpers
None == "None"                      \* Python None / an absent message field

SeedKey == 1                        \* well-known UUID of the seeded entry

\* the protected row the migrations seed: media role "raw", type "consumes"

CustomNames == {"hero", "temp"}
SeedName(k) == IF k = "role" THEN "raw" ELSE "consumes"
Names(k)    == {SeedName(k)} \cup CustomNames
Labels      == {"A", "B"}

Put(f, k, v) == [x \in DOMAIN f \cup {k} |-> IF x = k THEN v ELSE f[x]]
Drop(f, k)   == [x \in DOMAIN f \ {k} |-> f[x]]
Empty        == [x \in {} |-> None]

VARIABLES
    kind,        \* which of the two parallel registries this behaviour drives
    reg,         \* [by_name, by_key]: RoleRegistry / RelationshipTypeRegistry
    db_roles,    \* registry_roles / registry_relationship_types rows, by key
    db_layers,   \* persisted layer entities: id -> attributes.role_key
    db_edges,    \* the relationships table: rows in insertion order
    events,      \* the events table, in append order
    nextKey,     \* next uuid4 for a registry key
    nextHolder,  \* next uuid4 for an entity id
    nops,        \* requests handled so far
    last         \* the request handled last, with its reply

regvars == <<kind, reg, db_roles, db_layers, db_edges, events, nextKey, nextHolder,
             nops, last>>

Conns == {"a", "b", "c"}             \* the client endpoints (one socket each)

\* the endpoints are named in the order in which they first connect
Earlier(c) == CASE c = "a" -> {} [] c = "b" -> {"a"} [] c = "c" -> {"a", "b"}

VARIABLES
    pc,             \* where each connection task stands
    clients,        \* ConnectionManager._clients (by endpoint)
    last_event_id,  \* ConnectedClient.last_event_id
    hello_last,     \* last_event_id carried by the hello of this connection
    missed,         \* the events read by _replay_missed_events, not yet sent
    inbox,          \* every frame the server wrote to the endpoint, in order
    hs_at,          \* length of inbox when the current connection was accepted
    recv,           \* requests (with an id) read on the current connection
    cur,            \* the request being handled: its id and its event's id
    bcast,          \* ids of the events handed to broadcast_event so far
    nextEvent,      \* next uuid4 for an event row
    nin             \* hellos and frames read so far, over all connections

livevars == <<pc, clients, last_event_id, hello_last, missed, inbox, hs_at,
              recv, cur, bcast, nextEvent, nin>>

Projects == {"P", "Q"}               \* project ids a client can subscribe to
MsgIds   == 1 .. MaxReq              \* the msg ids of the client's requests

VARIABLES
    subscriptions,  \* ConnectedClient.subscriptions (by endpoint)
    project_subs    \* ConnectionManager._project_subs

subvars == <<subscriptions, project_subs>>

VARIABLES
    wsopen,         \* endpoints whose socket still accepts a send
    sent,           \* the last broadcast: its scope, its recipients, its count
    rel_task,       \* a relationship.create in progress on each connection
    rel_reply       \* the reply to the last relationship.create of each connection

VARIABLES
    log_rows,       \* the events table: the id and occurred_at of each row
    clock,          \* the database's now()
    replay          \* the last handshake that carried a cursor: what it read and sent

logvars == <<log_rows, clock, replay>>

VARIABLES
    db_sessions,    \* the sessions table: id -> whether disconnected_at is set
    session_id,     \* ConnectedClient.session_id of each connection, 0 when none
    ended,          \* the session_ids whose connection handler has returned
    next_uuid       \* the next uuid4 handed out

sessvars == <<db_sessions, session_id, ended, next_uuid>>

VARIABLES
    auto_reconnect, \* AsyncClient.auto_reconnect
    _ws,            \* AsyncClient._ws: "none", or the state of the socket
    _connected,     \* AsyncClient._connected is set
    _stopped,       \* AsyncClient._stopped
    _recv_task,     \* where the receive task stands
    _pending,       \* the msg ids in AsyncClient._pending
    future,         \* PendingRequest.future of each request
    req,            \* where each call of request() stands
    outcome,        \* how each call of request() ended
    inflight,       \* requests written to the socket and not yet answered
    stop_pc,        \* where the call of stop() stands
    attempts,       \* connection attempts started so far
    ws_gen,         \* which socket _ws is: the count of sockets opened so far
    stop_gen,       \* the socket stop() is writing its bye to, or closing
    listener_req,   \* the request a running event listener awaits, 0 when none
    _reconnect_delay \* AsyncClient._reconnect_delay, in seconds

clivars == <<auto_reconnect, _ws, _connected, _stopped, _recv_task, _pending,
             future, req, outcome, inflight, stop_pc, attempts, ws_gen, stop_gen,
             listener_req, _reconnect_delay>>

VARIABLES
    _subscriptions, \* AsyncClient._subscriptions
    server_subs,    \* ConnectedClient.subscriptions of the client's session
    sub_frames      \* subscribe frames written by _connect, not yet handled

resubvars == <<_subscriptions, server_subs, sub_frames>>

VARIABLES
    last_sub        \* the last subscribe or unsubscribe call and how many
                    \* subscribe calls of that session and project came before

histvars == <<last_sub>>

VARIABLES
    db_entities,    \* the entities table: id -> entity_type and attributes
    q_reply         \* the last query.dependents / query.dependencies and its result

graphvars == <<db_entities, q_reply>>

VARIABLES
    default_reg     \* the registry Registry.default() returned in each process

seedvars == <<default_reg>>

VARIABLES
    tc,             \* a Timecode, once constructed
    tc_back         \* Timecode.from_frames(tc.to_frames(), tc.fps), once computed

tcvars == <<tc, tc_back>>

\* the variables of the specifications that follow SpecEdges
latervars == <<logvars, sessvars, clivars, resubvars, histvars, graphvars,
                   seedvars, tcvars>>

extvars == <<wsopen, sent, rel_task, rel_reply, latervars>>

vars == <<regvars, livevars, subvars, extvars>>

\* ------------------------------------------------------------ _Entry
\* _Entry(key, name, obj, protected, _refs); obj.role.name is kept as rname,
\* obj.label as label.
NewEntry(key, name, label, protected) ==
    [key |-> key, name |-> name, rname |-> name, label |-> label,
     protected |-> protected, refs |-> {}]

ref_count_of(entry) == Cardinality(entry.refs)

acquire(entry, holder) == [entry EXCEPT !.refs = @ \cup {holder}]

release(entry, holder) == [entry EXCEPT !.refs = @ \ {holder}]

\* ------------------------------------------------------------ registry
\* Every operation returns [err, reg, ...]: err = "ok" or the exception raised.

register(r, name, key, label, protected) ==
    IF name \in DOMAIN r.by_name
    THEN [err |-> "RegistryError", reg |-> r]
    ELSE IF key \in DOMAIN r.by_key
    THEN [err |-> "RegistryError", reg |-> r]
    ELSE [err |-> "ok",
          reg |-> [by_name |-> Put(r.by_name, name, key),
                   by_key  |-> Put(r.by_key, key, NewEntry(key, name, label, protected))]]

get_key(r, name) ==
    IF name \notin DOMAIN r.by_name
    THEN [err |-> "UnknownNameError", key |-> 0]
    ELSE [err |-> "ok", key |-> r.by_name[name]]

renameKeepOld(r, old_name, new_name) ==
    IF old_name \notin DOMAIN r.by_name
    THEN [err |-> "UnknownNameError", reg |-> r]
    ELSE IF new_name \in DOMAIN r.by_name
    THEN [err |-> "RegistryError", reg |-> r]
    ELSE LET key == r.by_name[old_name] IN
         [err |-> "ok",
          reg |-> [by_name |-> Put(r.by_name, new_name, key),
                   by_key  |-> [r.by_key EXCEPT ![key].name = new_name,
                                                ![key].rname = new_name]]]

renameNoRoleName(r, old_name, new_name) ==
    IF old_name \notin DOMAIN r.by_name
    THEN [err |-> "UnknownNameError", reg |-> r]
    ELSE IF new_name \in DOMAIN r.by_name
    THEN [err |-> "RegistryError", reg |-> r]
    ELSE LET key == r.by_name[old_name] IN
         [err |-> "ok",
          reg |-> [by_name |-> Put(Drop(r.by_name, old_name), new_name, key),
                   by_key  |-> [r.by_key EXCEPT ![key].name = new_name]]]

rename(r, old_name, new_name) ==
    IF old_name \notin DOMAIN r.by_name
    THEN [err |-> "UnknownNameError", reg |-> r]
    ELSE IF new_name \in DOMAIN r.by_name
    THEN [err |-> "RegistryError", reg |-> r]
    ELSE LET key == r.by_name[old_name] IN
         [err |-> "ok",
          reg |-> [by_name |-> Put(Drop(r.by_name, old_name), new_name, key),
                   by_key  |-> [r.by_key EXCEPT ![key].name = new_name,
                                                ![key].rname = new_name]]]

rename_label(r, name, new_label) ==
    IF name \notin DOMAIN r.by_name
    THEN [err |-> "UnknownNameError", reg |-> r]
    ELSE [err |-> "ok",
          reg |-> [r EXCEPT !.by_key[r.by_name[name]].label = new_label]]

\* update(name, label=...): None leaves the field unchanged
update(r, name, label) ==
    IF name \notin DOMAIN r.by_name
    THEN [err |-> "UnknownNameError", reg |-> r]
    ELSE [err |-> "ok",
          reg |-> IF label = None THEN r
                  ELSE [r EXCEPT !.by_key[r.by_name[name]].label = label]]

\* _Entry.transfer for every holder of `key`, in turn: pop from the source
\* entry, acquire on the target entry (the same entry when target = key).
transfer_all(by_key, key, target_key) ==
    LET holders == by_key[key].refs
        popped  == [by_key EXCEPT ![key].refs = {}]
    IN  [popped EXCEPT ![target_key].refs = @ \cup holders]

deleteNoProtect(r, name, migrate_to) ==
    IF name \notin DOMAIN r.by_name
    THEN [err |-> "UnknownNameError", reg |-> r, migrated |-> 0]
    ELSE
      LET key   == r.by_name[name]
          entry == r.by_key[key]
      IN
      IF ref_count_of(entry) > 0 /\ migrate_to = None
      THEN [err |-> "OrphanError", reg |-> r, migrated |-> 0]
      ELSE IF ref_count_of(entry) > 0 /\ migrate_to \notin DOMAIN r.by_name
      THEN [err |-> "UnknownNameError", reg |-> r, migrated |-> 0]
      ELSE
        LET moved == IF ref_count_of(entry) > 0
                     THEN transfer_all(r.by_key, key, r.by_name[migrate_to])
                     ELSE r.by_key
        IN [err |-> "ok",
            reg |-> [by_name |-> Drop(r.by_name, name), by_key |-> Drop(moved, key)],
            migrated |-> ref_count_of(entry)]

delete(r, name, migrate_to) ==
    IF name \notin DOMAIN r.by_name
    THEN [err |-> "UnknownNameError", reg |-> r, migrated |-> 0]
    ELSE
      LET key   == r.by_name[name]
          entry == r.by_key[key]
      IN
      IF entry.protected
      THEN [err |-> "ProtectedEntryError", reg |-> r, migrated |-> 0]
      ELSE IF ref_count_of(entry) > 0 /\ migrate_to = None
      THEN [err |-> "OrphanError", reg |-> r, migrated |-> 0]
      ELSE IF ref_count_of(entry) > 0 /\ migrate_to \notin DOMAIN r.by_name
      THEN [err |-> "UnknownNameError", reg |-> r, migrated |-> 0]
      ELSE
        LET moved == IF ref_count_of(entry) > 0
                     THEN transfer_all(r.by_key, key, r.by_name[migrate_to])
                     ELSE r.by_key
        IN [err |-> "ok",
            reg |-> [by_name |-> Drop(r.by_name, name), by_key |-> Drop(moved, key)],
            migrated |-> ref_count_of(entry)]

\* RoleRegistry.register_usage raises on an unknown key (the caller, Layer,
\* swallows it); RelationshipTypeRegistry.register_usage returns silently.
register_usage(r, key, holder) ==
    IF key \notin DOMAIN r.by_key THEN r
    ELSE [r EXCEPT !.by_key[key] = acquire(@, holder)]

unregister_usage(r, key, holder) ==
    IF key \notin DOMAIN r.by_key THEN r
    ELSE [r EXCEPT !.by_key[key] = release(@, holder)]

ref_count(r, name) == ref_count_of(r.by_key[r.by_name[name]])

who_references(r, name) == r.by_key[r.by_name[name]].refs

\* Layer.role_name(registry): the name read through the registry
role_name(r, role_key) ==
    IF role_key \in DOMAIN r.by_key THEN r.by_key[role_key].rname ELSE "<key>"


\* ------------------------------------------------------------ store
\* DBRole / DBRelationshipType row: name and key are unique columns.
Row(entry, protected) ==
    [name |-> entry.rname, label |-> entry.label, protected |-> protected]

\* RegistryRepo.save_role / save_relationship_type: update the row of this key
\* (name, label; the protected column is not written) or insert a new one
\* (protected takes the column default, False).
save_role(db, entry) ==
    IF entry.key \in DOMAIN db
    THEN [db EXCEPT ![entry.key].name = entry.rname, ![entry.key].label = entry.label]
    ELSE Put(db, entry.key, Row(entry, FALSE))

delete_role(db, key) == Drop(db, key)

\* the unique constraint on the name column
UniqueNames(db) == \A k1, k2 \in DOMAIN db : db[k1].name = db[k2].name => k1 = k2

\* RegistryRepo.restore_registry: an empty registry, one register per row
restore_registry(db) ==
    [by_name |-> [n \in {db[k].name : k \in DOMAIN db} |->
                    CHOOSE k \in DOMAIN db : db[k].name = n],
     by_key  |-> [k \in DOMAIN db |->
                    NewEntry(k, db[k].name, db[k].label, db[k].protected)]]

\* get_session: the writes of one session and its event become visible
\* together at commit, or not at all when the commit raises.
CommitOk(dbok, db2) == dbok /\ UniqueNames(db2)

Commit(dbok, db2, layers2, evtype) ==
    IF CommitOk(dbok, db2)
    THEN /\ db_roles'  = db2
         /\ db_layers' = layers2
         /\ events'    = IF evtype = None THEN events
                         ELSE Append(events, [id |-> Len(events) + 1, type |-> evtype])
    ELSE UNCHANGED <<db_roles, db_layers, events>>

\* ------------------------------------------------------------ router
\* Router.dispatch: the handler's reply, INTERNAL when the handler raised.
Replied(op, name, arg, result, committed) ==
    /\ nops' = nops + 1
    /\ UNCHANGED <<livevars, subvars, extvars>>
    /\ last' = [op |-> op, name |-> name, arg |-> arg,
                result |-> result, committed |-> committed]

Rejected(op, name, arg, code) ==
    /\ Replied(op, name, arg, code, FALSE)
    /\ UNCHANGED <<kind, reg, db_roles, db_layers, db_edges, events, nextKey,
                   nextHolder>>

Written(op, name, arg, dbok, db2, layers2, evtype) ==
    /\ Commit(dbok, db2, layers2, evtype)
    /\ UNCHANGED db_edges
    /\ Replied(op, name, arg, IF CommitOk(dbok, db2) THEN "ok" ELSE "INTERNAL",
               CommitOk(dbok, db2))

_handle_role_register(name, dbok) ==
    /\ kind = "role" /\ nops < MaxOps
    /\ (name # None /\ name \notin DOMAIN reg.by_name) => nextKey <= MaxKey
    /\ IF name = None
       THEN Rejected("role.register", name, None, "INVALID")
       ELSE LET res == register(reg, name, nextKey, "A", FALSE) IN
            IF res.err # "ok"
            THEN Rejected("role.register", name, None, "ALREADY_EXISTS")
            ELSE /\ reg' = res.reg
                 /\ nextKey' = nextKey + 1
                 /\ Written("role.register", name, None, dbok,
                            save_role(db_roles, res.reg.by_key[nextKey]),
                            db_layers, "role.registered")
                 /\ UNCHANGED <<kind, nextHolder>>

_handle_role_rename(old_name, new_name, dbok) ==
    /\ kind = "role" /\ nops < MaxOps
    /\ IF old_name = None \/ new_name = None
       THEN Rejected("role.rename", old_name, new_name, "INVALID")
       ELSE LET res == rename(reg, old_name, new_name) IN
            IF res.err # "ok"
            THEN Rejected("role.rename", old_name, new_name, "NOT_FOUND")
            ELSE /\ reg' = res.reg
                 /\ Written("role.rename", old_name, new_name, dbok,
                            save_role(db_roles, res.reg.by_key[reg.by_name[old_name]]),
                            db_layers, "role.renamed")
                 /\ UNCHANGED <<kind, nextKey, nextHolder>>

_handle_role_label(name, new_label, dbok) ==
    /\ kind = "role" /\ nops < MaxOps
    /\ LET res == rename_label(reg, name, new_label) IN
       IF name = None
       THEN Rejected("role.rename_label", name, new_label, "INVALID")
       ELSE IF res.err # "ok"
       THEN Rejected("role.rename_label", name, new_label, "NOT_FOUND")
       ELSE /\ reg' = res.reg
            /\ Written("role.rename_label", name, new_label, dbok,
                       save_role(db_roles, res.reg.by_key[reg.by_name[name]]),
                       db_layers, "role.label_changed")
            /\ UNCHANGED <<kind, nextKey, nextHolder>>

\* role.update saves the role and returns ok: no event is appended
_handle_role_update(name, label, dbok) ==
    /\ kind = "role" /\ nops < MaxOps
    /\ LET res == update(reg, name, label) IN
       IF name = None
       THEN Rejected("role.update", name, label, "INVALID")
       ELSE IF res.err # "ok"
       THEN Rejected("role.update", name, label, "NOT_FOUND")
       ELSE /\ reg' = res.reg
            /\ Written("role.update", name, label, dbok,
                       save_role(db_roles, res.reg.by_key[reg.by_name[name]]),
                       db_layers, None)
            /\ UNCHANGED <<kind, nextKey, nextHolder>>

DeleteCode(err) ==
    CASE err = "ProtectedEntryError" -> "PROTECTED"
      [] err = "OrphanError"         -> "ORPHAN_BLOCKED"
      [] err = "UnknownNameError"    -> "NOT_FOUND"

\* role.delete: the registry delete (with its in-memory migration), then
\* delete_role(key) and the role.deleted event in one session. No entity row
\* is rewritten.
_handle_role_delete(name, migrate_to, dbok) ==
    /\ kind = "role" /\ nops < MaxOps
    /\ IF name = None
       THEN Rejected("role.delete", name, migrate_to, "INVALID")
       ELSE LET res == delete(reg, name, migrate_to) IN
            IF res.err # "ok"
            THEN Rejected("role.delete", name, migrate_to, DeleteCode(res.err))
            ELSE /\ reg' = res.reg
                 /\ Written("role.delete", name, migrate_to, dbok,
                            delete_role(db_roles, reg.by_name[name]),
                            db_layers, "role.deleted")
                 /\ UNCHANGED <<kind, nextKey, nextHolder>>

\* entity.create of a layer, role given by name: _build_entity constructs
\* Layer(role, registry) -- get_key (an unknown name raises: INTERNAL), then
\* register_usage under the new entity id -- then the row and its event are saved.
_handle_entity_create(role, dbok) ==
    /\ kind = "role" /\ nops < MaxOps
    /\ nextHolder <= MaxHolder
    /\ LET k == get_key(reg, role) IN
       IF k.err # "ok"
       THEN Rejected("entity.create", role, None, "INTERNAL")
       ELSE /\ reg' = register_usage(reg, k.key, nextHolder)
            /\ nextHolder' = nextHolder + 1
            /\ Written("entity.create", role, None, dbok, db_roles,
                       Put(db_layers, nextHolder, k.key), "entity.created")
            /\ UNCHANGED <<kind, nextKey>>

\* a UUID no registry entry ever had
ForeignKey == MaxKey + 1

\* the UUIDs a request can carry: keys handed out so far, or a foreign one
KnownKeys == (SeedKey .. (nextKey - 1)) \cup {ForeignKey}

\* entity.create of a layer, role given as a UUID string: Layer.__init__ takes
\* the UUID as the role_key without a lookup; register_usage raises on an
\* unknown key and the exception is swallowed.
_handle_entity_create_uuid(role_key, dbok) ==
    /\ kind = "role" /\ nops < MaxOps
    /\ nextHolder <= MaxHolder
    /\ role_key \in KnownKeys
    /\ reg' = register_usage(reg, role_key, nextHolder)
    /\ nextHolder' = nextHolder + 1
    /\ Written("entity.create", None, None, dbok, db_roles,
               Put(db_layers, nextHolder, role_key), "entity.created")
    /\ UNCHANGED <<kind, nextKey>>

\* entity.update with attributes {role_key: ...}: the loaded layer's role_key
\* is set to the value given and the row saved; the registry is not consulted.
_handle_entity_update(h, role_key, dbok) ==
    /\ kind = "role" /\ nops < MaxOps
    /\ role_key \in KnownKeys
    /\ IF h \notin DOMAIN db_layers
       THEN Rejected("entity.update", None, None, "NOT_FOUND")
       ELSE /\ Written("entity.update", None, None, dbok, db_roles,
                       Put(db_layers, h, role_key), "entity.updated")
            /\ UNCHANGED <<kind, reg, nextKey, nextHolder>>

\* entity.delete: the row is deleted and the event appended; the registry is
\* not told.
_handle_entity_delete(h, dbok) ==
    /\ kind = "role" /\ nops < MaxOps
    /\ IF h \notin DOMAIN db_layers
       THEN Rejected("entity.delete", None, None, "NOT_FOUND")
       ELSE /\ Written("entity.delete", None, None, dbok, db_roles,
                       Drop(db_layers, h), "entity.deleted")
            /\ UNCHANGED <<kind, reg, nextKey, nextHolder>>

\* ForgeServer.start after a restart: the registry is rebuilt from the rows
Restart ==
    /\ last.op # "restart"
    /\ reg' = restore_registry(db_roles)
    /\ last' = [op |-> "restart", name |-> None, arg |-> None,
                result |-> "ok", committed |-> FALSE]
    /\ UNCHANGED <<kind, db_roles, db_layers, db_edges, events, nextKey,
                   nextHolder, nops>>
    /\ UNCHANGED <<livevars, subvars, extvars>>

\* -------------------------------------------- relationship-type handlers
\* The rel_type handlers save or delete the row; none appends an event.
_handle_rel_type_register(name, dbok) ==
    /\ kind = "rel" /\ nops < MaxOps
    /\ (name # None /\ name \notin DOMAIN reg.by_name) => nextKey <= MaxKey
    /\ IF name = None
       THEN Rejected("relationship_type.register", name, None, "INVALID")
       ELSE LET res == register(reg, name, nextKey, "A", FALSE) IN
            IF res.err # "ok"
            THEN Rejected("relationship_type.register", name, None, "ALREADY_EXISTS")
            ELSE /\ reg' = res.reg
                 /\ nextKey' = nextKey + 1
                 /\ Written("relationship_type.register", name, None, dbok,
                            save_role(db_roles, res.reg.by_key[nextKey]),
                            db_layers, None)
                 /\ UNCHANGED <<kind, nextHolder>>

_handle_rel_type_rename(old_name, new_name, dbok) ==
    /\ kind = "rel" /\ nops < MaxOps
    /\ IF old_name = None \/ new_name = None
       THEN Rejected("relationship_type.rename", old_name, new_name, "INVALID")
       ELSE LET res == rename(reg, old_name, new_name) IN
            IF res.err # "ok"
            THEN Rejected("relationship_type.rename", old_name, new_name, "NOT_FOUND")
            ELSE /\ reg' = res.reg
                 /\ Written("relationship_type.rename", old_name, new_name, dbok,
                            save_role(db_roles, res.reg.by_key[reg.by_name[old_name]]),
                            db_layers, None)
                 /\ UNCHANGED <<kind, nextKey, nextHolder>>

_handle_rel_type_label(name, new_label, dbok) ==
    /\ kind = "rel" /\ nops < MaxOps
    /\ LET res == rename_label(reg, name, new_label) IN
       IF name = None
       THEN Rejected("relationship_type.rename_label", name, new_label, "INVALID")
       ELSE IF res.err # "ok"
       THEN Rejected("relationship_type.rename_label", name, new_label, "NOT_FOUND")
       ELSE /\ reg' = res.reg
            /\ Written("relationship_type.rename_label", name, new_label, dbok,
                       save_role(db_roles, res.reg.by_key[reg.by_name[name]]),
                       db_layers, None)
            /\ UNCHANGED <<kind, nextKey, nextHolder>>

_handle_rel_type_delete(name, migrate_to, dbok) ==
    /\ kind = "rel" /\ nops < MaxOps
    /\ IF name = None
       THEN Rejected("relationship_type.delete", name, migrate_to, "INVALID")
       ELSE LET res == delete(reg, name, migrate_to) IN
            IF res.err # "ok"
            THEN Rejected("relationship_type.delete", name, migrate_to, DeleteCode(res.err))
            ELSE /\ reg' = res.reg
                 /\ Written("relationship_type.delete", name, migrate_to, dbok,
                            delete_role(db_roles, reg.by_name[name]),
                            db_layers, None)
                 /\ UNCHANGED <<kind, nextKey, nextHolder>>

\* Relational.add_relationship(target, key, registry): the edge registers its
\* usage of the type key (an unknown key is skipped silently).
add_relationship(rel_key) ==
    /\ kind = "rel" /\ nops < MaxOps
    /\ nextHolder <= MaxHolder
    /\ reg' = register_usage(reg, rel_key, nextHolder)
    /\ nextHolder' = nextHolder + 1
    /\ Replied("add_relationship", None, None, "ok", FALSE)
    /\ UNCHANGED <<kind, db_roles, db_layers, db_edges, events, nextKey>>

\* Relational.remove_relationship: the edge's usage is released
remove_relationship(rel_key, edge) ==
    /\ kind = "rel" /\ nops < MaxOps
    /\ rel_key \in DOMAIN reg.by_key
    /\ edge \in reg.by_key[rel_key].refs
    /\ reg' = unregister_usage(reg, rel_key, edge)
    /\ Replied("remove_relationship", None, None, "ok", FALSE)
    /\ UNCHANGED <<kind, db_roles, db_layers, db_edges, events, nextKey,
                   nextHolder>>

\* ------------------------------------------------------- stored edges
\* the (source, target) pairs a relationship request names: ids of stored
\* entities
EdgePairs == {<<1, 2>>, <<2, 1>>}

Edge(pair, rel_key) == [source |-> pair[1], target |-> pair[2], rel_type_key |-> rel_key]

\* RelationshipRepo.save: the edge is inserted unless the select finds it
RelationshipRepo_save(rows, edge) ==
    IF \E i \in 1 .. Len(rows) : rows[i] = edge THEN rows ELSE Append(rows, edge)

\* RelationshipRepo.delete: every row of the triple is deleted
RelationshipRepo_delete(rows, edge) == SelectSeq(rows, LAMBDA r : r # edge)

\* relationship.create: the type name is resolved through the registry, the
\* edge is saved; no usage is registered and no event is appended.
_handle_relationship_create(pair, rel_type, dbok) ==
    /\ kind = "rel" /\ nops < MaxOps
    /\ IF rel_type = None
       THEN Rejected("relationship.create", rel_type, None, "INVALID")
       ELSE LET k == get_key(reg, rel_type) IN
            IF k.err # "ok"
            THEN Rejected("relationship.create", rel_type, None, "NOT_FOUND")
            ELSE /\ db_edges' = IF dbok
                                THEN RelationshipRepo_save(db_edges, Edge(pair, k.key))
                                ELSE db_edges
                 /\ Replied("relationship.create", rel_type, None,
                            IF dbok THEN "ok" ELSE "INTERNAL", dbok)
                 /\ UNCHANGED <<kind, reg, db_roles, db_layers, events, nextKey,
                                nextHolder>>

\* relationship.remove
_handle_relationship_remove(pair, rel_type, dbok) ==
    /\ kind = "rel" /\ nops < MaxOps
    /\ IF rel_type = None
       THEN Rejected("relationship.remove", rel_type, None, "INVALID")
       ELSE LET k == get_key(reg, rel_type) IN
            IF k.err # "ok"
            THEN Rejected("relationship.remove", rel_type, None, "NOT_FOUND")
            ELSE /\ db_edges' = IF dbok
                                THEN RelationshipRepo_delete(db_edges, Edge(pair, k.key))
                                ELSE db_edges
                 /\ Replied("relationship.remove", rel_type, None,
                            IF dbok THEN "ok" ELSE "INTERNAL", dbok)
                 /\ UNCHANGED <<kind, reg, db_roles, db_layers, events, nextKey,
                                nextHolder>>

\* ------------------------------------------------------------ Spec
Keys    == SeedKey .. MaxKey
Holders == 1 .. MaxHolder
Arg(k)  == Names(k) \cup {None}

\* no broadcast is in hand
NoSend == [project |-> None, exclude |-> None, tried |-> {}, to |-> {},
           count |-> 0, tick |-> 0]

\* no relationship.create is in progress
NoTask == [pc |-> "idle", edge |-> None, found |-> FALSE]

\* no handshake has carried a cursor
NoReplay == [cursor |-> 0, read |-> FALSE, out |-> <<>>, welcome |-> FALSE,
             tick |-> 0]

\* the processes that create a default registry, independently of each other
Processes == {"first", "second"}

\* Registry(seed_defaults=False): both registries empty
EmptyRegistry == [by_name |-> Empty, by_key |-> Empty]

\* no Registry.default() yet in this process
NotCreated == [created |-> FALSE, roles |-> EmptyRegistry,
               relationships |-> EmptyRegistry]

\* no Timecode yet
NoTimecode == [made |-> FALSE]

\* no query yet
NoQuery == [op |-> "none", entity_id |-> None, ids |-> <<>>]

\* no subscribe or unsubscribe call yet
NoSub == [op |-> "none", c |-> None, p |-> None, subscribed |-> 0]

\* the class attributes of AsyncClient, in seconds
RECONNECT_BASE_DELAY == 1
RECONNECT_MAX_DELAY  == 60
RECONNECT_MULTIPLIER == 2

\* AsyncClient.__init__
InitClient(ar) ==
    /\ auto_reconnect = ar
    /\ _ws = "none"
    /\ _connected = FALSE
    /\ _stopped = FALSE
    /\ _recv_task = "none"
    /\ _pending = {}
    /\ future = [i \in MsgIds |-> "none"]
    /\ req = [i \in MsgIds |-> "idle"]
    /\ outcome = [i \in MsgIds |-> None]
    /\ inflight = {}
    /\ stop_pc = "idle"
    /\ attempts = 0
    /\ ws_gen = 0
    /\ stop_gen = 0
    /\ listener_req = 0
    /\ _reconnect_delay = RECONNECT_BASE_DELAY
    /\ _subscriptions = {}
    /\ server_subs = {}
    /\ sub_frames = {}
    /\ last_sub = NoSub

\* no connection yet
InitServer ==
    /\ pc = [c \in Conns |-> "closed"]
    /\ clients = {}
    /\ last_event_id = [c \in Conns |-> 0]
    /\ hello_last = [c \in Conns |-> 0]
    /\ missed = [c \in Conns |-> <<>>]
    /\ inbox = [c \in Conns |-> <<>>]
    /\ hs_at = [c \in Conns |-> 0]
    /\ recv = [c \in Conns |-> <<>>]
    /\ cur = [c \in Conns |-> [rid |-> 0, ev |-> 0]]
    /\ bcast = {}
    /\ nextEvent = 1
    /\ nin = 0
    /\ subscriptions = [c \in Conns |-> {}]
    /\ project_subs = [p \in Projects |-> {}]
    /\ wsopen = {}
    /\ sent = NoSend
    /\ rel_task = [c \in Conns |-> NoTask]
    /\ rel_reply = [c \in Conns |-> None]
    /\ log_rows = {}
    /\ clock = 0
    /\ replay = NoReplay
    /\ db_sessions = Empty
    /\ session_id = [c \in Conns |-> 0]
    /\ ended = {}
    /\ next_uuid = 1

\* no connection yet, and a client with the default auto_reconnect
InitConns ==
    /\ InitServer
    /\ InitClient(TRUE)

\* ForgeServer.start on a migrated database: the seeded row is protected and
\* the registry is restored from it.
InitStore ==
    /\ db_roles = Put(Empty, SeedKey,
                      [name |-> SeedName(kind), label |-> "A", protected |-> TRUE])
    /\ reg = restore_registry(db_roles)
    /\ db_layers = Empty
    /\ db_edges = <<>>
    /\ events = <<>>
    /\ nextKey = SeedKey + 1
    /\ nextHolder = 1
    /\ nops = 0
    /\ last = [op |-> "init", name |-> None, arg |-> None,
               result |-> "ok", committed |-> FALSE]
    /\ db_entities = Empty
    /\ q_reply = NoQuery
    /\ default_reg = [p \in Processes |-> NotCreated]
    /\ tc = NoTimecode
    /\ tc_back = NoTimecode

Init ==
    /\ kind \in {"role", "rel"}
    /\ InitStore
    /\ InitConns

Next ==
    \/ \E n \in Arg(kind), ok \in BOOLEAN : _handle_role_register(n, ok)
    \/ \E n, m \in Arg(kind), ok \in BOOLEAN : _handle_role_rename(n, m, ok)
    \/ \E n \in Arg(kind), l \in Labels, ok \in BOOLEAN : _handle_role_label(n, l, ok)
    \/ \E n \in Arg(kind), l \in Labels, ok \in BOOLEAN : _handle_role_update(n, l, ok)
    \/ \E n, m \in Arg(kind), ok \in BOOLEAN : _handle_role_delete(n, m, ok)
    \/ \E n \in Names(kind), ok \in BOOLEAN : _handle_entity_create(n, ok)
    \/ \E h \in Holders, ok \in BOOLEAN : _handle_entity_delete(h, ok)
    \/ \E k \in Keys \cup {ForeignKey}, ok \in BOOLEAN : _handle_entity_create_uuid(k, ok)
    \/ \E h \in Holders, k \in Keys \cup {ForeignKey}, ok \in BOOLEAN :
          _handle_entity_update(h, k, ok)
    \/ Restart
    \/ \E n \in Arg(kind), ok \in BOOLEAN : _handle_rel_type_register(n, ok)
    \/ \E n, m \in Arg(kind), ok \in BOOLEAN : _handle_rel_type_rename(n, m, ok)
    \/ \E n \in Arg(kind), l \in Labels, ok \in BOOLEAN : _handle_rel_type_label(n, l, ok)
    \/ \E n, m \in Arg(kind), ok \in BOOLEAN : _handle_rel_type_delete(n, m, ok)
    \/ \E k \in Keys : add_relationship(k)
    \/ \E k \in Keys, e \in Holders : remove_relationship(k, e)
    \/ \E e \in EdgePairs, n \in Arg(kind), ok \in BOOLEAN :
          _handle_relationship_create(e, n, ok)
    \/ \E e \in EdgePairs, n \in Arg(kind), ok \in BOOLEAN :
          _handle_relationship_remove(e, n, ok)

Spec == Init /\ [][Next]_vars


\* -------------------------------------------- reference tracking, called directly
RoleRegistry_register_usageSilent(r, key, holder) ==
    IF key \notin DOMAIN r.by_key
    THEN [err |-> "ok", reg |-> r]
    ELSE [err |-> "ok", reg |-> [r EXCEPT !.by_key[key] = acquire(@, holder)]]

\* RoleRegistry.register_usage: an unknown key raises UnknownKeyError
RoleRegistry_register_usage(r, key, holder) ==
    IF key \notin DOMAIN r.by_key
    THEN [err |-> "UnknownKeyError", reg |-> r]
    ELSE [err |-> "ok", reg |-> [r EXCEPT !.by_key[key] = acquire(@, holder)]]

\* registry.roles.register_usage(key, holder_id) or
\* registry.relationships.register_usage(key, source_id, target_id)
call_register_usage(key, holder) ==
    /\ nops < MaxOps
    /\ LET res == IF kind = "role"
                  THEN RoleRegistry_register_usage(reg, key, holder)
                  ELSE [err |-> "ok", reg |-> register_usage(reg, key, holder)]
       IN /\ reg' = res.reg
          /\ Replied("register_usage", key, holder, res.err, FALSE)
    /\ UNCHANGED <<kind, db_roles, db_layers, db_edges, events, nextKey, nextHolder>>

\* unregister_usage of either registry: an unknown key is skipped
call_unregister_usage(key, holder) ==
    /\ nops < MaxOps
    /\ reg' = unregister_usage(reg, key, holder)
    /\ Replied("unregister_usage", key, holder, "ok", FALSE)
    /\ UNCHANGED <<kind, db_roles, db_layers, db_edges, events, nextKey, nextHolder>>

NextUsage ==
    \/ \E n \in CustomNames : _handle_role_register(n, TRUE)
    \/ \E n \in CustomNames : _handle_rel_type_register(n, TRUE)
    \/ \E n, m \in Arg(kind) : _handle_role_delete(n, m, TRUE)
    \/ \E n, m \in Arg(kind) : _handle_rel_type_delete(n, m, TRUE)
    \/ \E k \in Keys \cup {ForeignKey}, h \in Holders : call_register_usage(k, h)
    \/ \E k \in Keys \cup {ForeignKey}, h \in Holders : call_unregister_usage(k, h)

SpecUsage == Init /\ [][NextUsage]_vars

\* -------------------------------------------- Registry.to_dict / from_dict
\* the labels a caller passes: the empty string is a label too
DictLabels == Labels \cup {""}

\* register of the registry `kind`: RoleRegistry.register stores the label it
\* is given, RelationshipTypeRegistry.register stores label or the name
register_in(k, r, name, key, label, protected) ==
    register(r, name, key,
             IF k = "rel" /\ label = "" THEN name ELSE label, protected)

\* Registry.summary, one of its two dicts: entry.name -> key, label,
\* protected, ref_count, for each entry of _by_key
to_dict(r) ==
    [n \in {r.by_key[k].name : k \in DOMAIN r.by_key} |->
        LET entry == r.by_key[CHOOSE k \in DOMAIN r.by_key : r.by_key[k].name = n]
        IN [key |-> entry.key, label |-> entry.label,
            protected |-> entry.protected, ref_count |-> ref_count_of(entry)]]

RECURSIVE from_dictUnprotected(_, _, _)
from_dictUnprotected(k, data, r) ==
    IF DOMAIN data = {} THEN r
    ELSE LET name == CHOOSE n \in DOMAIN data : TRUE
             info == data[name]
         IN from_dictUnprotected(k, Drop(data, name),
                register_in(k, r, name, info.key, info.label, FALSE).reg)

\* Registry.from_dict, one of its two loops, onto the registry r: each name of
\* the dict is registered under its key, label and protected flag
RECURSIVE from_dict(_, _, _)
from_dict(k, data, r) ==
    IF DOMAIN data = {} THEN r
    ELSE LET name == CHOOSE n \in DOMAIN data : TRUE
             info == data[name]
         IN from_dict(k, Drop(data, name),
                register_in(k, r, name, info.key, info.label, info.protected).reg)

\* a direct call of register, rename, update (roles only) or delete
call_register(name, label) ==
    /\ nops < MaxOps /\ nextKey <= MaxKey
    /\ LET res == register_in(kind, reg, name, nextKey, label, FALSE)
       IN /\ reg' = res.reg
          /\ nextKey' = IF res.err = "ok" THEN nextKey + 1 ELSE nextKey
          /\ Replied("register", name, None, res.err, FALSE)
    /\ UNCHANGED <<kind, db_roles, db_layers, db_edges, events, nextHolder>>

call_rename(old_name, new_name) ==
    /\ nops < MaxOps
    /\ LET res == rename(reg, old_name, new_name)
       IN /\ reg' = res.reg
          /\ Replied("rename", old_name, new_name, res.err, FALSE)
    /\ UNCHANGED <<kind, db_roles, db_layers, db_edges, events, nextKey, nextHolder>>

call_update(name, label) ==
    /\ nops < MaxOps /\ kind = "role"
    /\ LET res == update(reg, name, label)
       IN /\ reg' = res.reg
          /\ Replied("update", name, None, res.err, FALSE)
    /\ UNCHANGED <<kind, db_roles, db_layers, db_edges, events, nextKey, nextHolder>>

call_delete(name, migrate_to) ==
    /\ nops < MaxOps
    /\ LET res == delete(reg, name, migrate_to)
       IN /\ reg' = res.reg
          /\ Replied("delete", name, migrate_to, res.err, FALSE)
    /\ UNCHANGED <<kind, db_roles, db_layers, db_edges, events, nextKey, nextHolder>>

NextDict ==
    \/ \E n \in Names(kind), l \in DictLabels : call_register(n, l)
    \/ \E n, m \in Names(kind) : call_rename(n, m)
    \/ \E n \in Names(kind), l \in DictLabels \cup {None} : call_update(n, l)
    \/ \E n \in Names(kind), m \in Arg(kind) : call_delete(n, m)
    \/ \E k \in Keys, h \in Holders : call_register_usage(k, h)

SpecDict == Init /\ [][NextDict]_vars

\* ------------------------------------------------------------ claims, Spec
\* a step that handled one request of type op
Handled(op) == nops' = nops + 1 /\ last'.op = op

StoreUnchanged == UNCHANGED <<reg, db_roles, db_layers, db_edges, events>>

\* the reference sets of a registry, by key
RefSets(r) == [k \in DOMAIN r.by_key |-> r.by_key[k].refs]

\* a step that called op with a key the registry does not hold
UnknownKeyCall(op) == Handled(op) /\ last'.name \notin DOMAIN reg.by_key

\* C38: a delete with migrate_to that succeeded loses no reference: every
\* holder of the deleted key is afterwards a holder of a key that is still
\* registered, also when migrate_to names the entry being deleted.
MigrationLosesNoHolder ==
    [][ (Handled("delete") /\ last'.result = "ok" /\ last'.arg # None)
        => \A h \in reg.by_key[reg.by_name[last'.name]].refs :
              \E k \in DOMAIN reg'.by_key : h \in reg'.by_key[k].refs ]_vars

\* C40: the name index and the key index of the registry describe the same
\* entries after any sequence of register, rename, update and delete: every
\* name maps to one key whose entry carries that name, every key's entry is
\* found under its own name, and no two names share a key.
NameAndKeyIndexAgree ==
    /\ \A n \in DOMAIN reg.by_name :
          /\ reg.by_name[n] \in DOMAIN reg.by_key
          /\ reg.by_key[reg.by_name[n]].name = n
    /\ \A k \in DOMAIN reg.by_key :
          /\ reg.by_key[k].key = k
          /\ reg.by_key[k].name \in DOMAIN reg.by_name
          /\ reg.by_name[reg.by_key[k].name] = k
    /\ \A n, m \in DOMAIN reg.by_name :
          n # m => reg.by_name[n] # reg.by_name[m]

\* C40 witness: a custom entry was registered next to the seeded one and the
\* last call renamed it: its key is found under the new name
RenamedCustomEntry ==
    /\ last.op = "rename" /\ last.result = "ok"
    /\ Cardinality(DOMAIN reg.by_key) >= 2
    /\ last.arg \in DOMAIN reg.by_name
    /\ reg.by_name[last.arg] > SeedKey
    /\ last.name \notin DOMAIN reg.by_name

Definitions(r) ==
    [by_name |-> r.by_name,
     by_key  |-> [k \in DOMAIN r.by_key |-> [r.by_key[k] EXCEPT !.refs = {}]]]

DeleteWithoutMigration ==
    [][ ( /\ Handled("role.delete")
          /\ last'.arg = None
          /\ last'.name \in DOMAIN reg.by_name
          /\ ~reg.by_key[reg.by_name[last'.name]].protected )
        => LET n == last'.name
               k == reg.by_name[n]
           IN \/ /\ last'.result = "ORPHAN_BLOCKED"
                 /\ ref_count(reg, n) > 0
                 /\ StoreUnchanged
              \/ /\ ref_count(reg, n) = 0
                 /\ last'.result = "ok"
                 /\ n \notin DOMAIN reg'.by_name
                 /\ k \notin DOMAIN db_roles'
                 /\ Len(events') = Len(events) + 1
      ]_vars

\* the part of C1 the code keeps: a role that has a holder is refused with
\* ORPHAN_BLOCKED, nothing changes, and it is never removed without a target
OrphanProtection ==
    [][ ( /\ Handled("role.delete")
          /\ last'.arg = None
          /\ last'.name \in DOMAIN reg.by_name
          /\ ref_count(reg, last'.name) > 0 )
        => /\ last'.result \in {"ORPHAN_BLOCKED", "PROTECTED"}
           /\ StoreUnchanged
      ]_vars

\* C2: after a role.delete(name, migrate_to = m), m another role, that replied ok, no stored
\* layer and no registry holder is left on the deleted key, and every entity
\* that referenced the deleted role holds key(m): in the registry's reference
\* set and in its stored role_key.
MigrationMovesEveryHolder ==
    [][ ( /\ Handled("role.delete")
          /\ last'.arg # None
          /\ last'.arg # last'.name
          /\ last'.result = "ok" )
        => LET n == last'.name
               m == last'.arg
               k == reg.by_name[n]
               holders == reg.by_key[k].refs \cup
                          {h \in DOMAIN db_layers : db_layers[h] = k}
           IN /\ \A h \in DOMAIN db_layers' : db_layers'[h] # k
              /\ k \notin DOMAIN reg'.by_key
              /\ holders # {} =>
                   /\ m \in DOMAIN reg'.by_name
                   /\ \A h \in holders :
                        /\ h \in reg'.by_key[reg'.by_name[m]].refs
                        /\ h \in DOMAIN db_layers' =>
                             db_layers'[h] = reg'.by_name[m]
      ]_vars

\* C3: a protected entry (role or relationship type) is never deleted. A
\* delete naming it replies PROTECTED and changes nothing, whatever its
\* reference count and migrate_to; the seeded key stays registered and
\* protected in every state; a rename of it to a free name is applied under
\* the same key with the flag kept (and saved so when the session commits).
IsDelete == Handled("role.delete") \/ Handled("relationship_type.delete")
IsRename == Handled("role.rename") \/ Handled("relationship_type.rename")

RenameKeepsKey ==
    [][ ( /\ Handled("role.rename")
          /\ last'.result \in {"ok", "INTERNAL"} )
        => LET a == last'.name
               b == last'.arg
               k == reg.by_name[a]
           IN /\ a \notin DOMAIN reg'.by_name
              /\ b \in DOMAIN reg'.by_name
              /\ reg'.by_name[b] = k
              /\ reg'.by_key[k].key = k
              /\ reg'.by_key[k].refs = reg.by_key[k].refs
              /\ role_name(reg', k) = b
              /\ \A h \in DOMAIN db_layers' :
                    db_layers'[h] = k => role_name(reg', db_layers'[h]) = b
      ]_vars

\* C4 witness: a role held by a layer was renamed and the layer reads the
\* new name
RenamedWithHolder ==
    /\ last.op = "role.rename"
    /\ last.result = "ok"
    /\ last.arg \in DOMAIN reg.by_name
    /\ reg.by_key[reg.by_name[last.arg]].refs # {}
    /\ \E h \in DOMAIN db_layers :
          /\ db_layers[h] = reg.by_name[last.arg]
          /\ role_name(reg, db_layers[h]) = last.arg

\* C5: every request whose writes were committed appended exactly one event,
\* with an id no other event carries; a request that failed appended none.
OneEventPerMutation ==
    [][ nops' = nops + 1
        => IF last'.committed
           THEN /\ Len(events') = Len(events) + 1
                /\ SubSeq(events', 1, Len(events)) = events
                /\ \A i \in 1 .. Len(events) : events[i].id # events'[Len(events')].id
           ELSE events' = events
      ]_vars


\* C11: a request answered INTERNAL leaves the in-memory registry exactly as
\* it was before the request (names, keys, labels, holders).
RegistryRestoredOnFailure ==
    [][ (nops' = nops + 1 /\ last'.result = "INTERNAL") => reg' = reg ]_vars


\* C13: a role.register of a name that is taken, and a role.rename whose
\* target name is bound to another role, reply ALREADY_EXISTS and change
\* nothing.
NameCollisionReported ==
    [][ /\ ( /\ Handled("role.register")
             /\ last'.name \in DOMAIN reg.by_name )
           => (last'.result = "ALREADY_EXISTS" /\ StoreUnchanged)
        /\ ( /\ Handled("role.rename")
             /\ last'.name \in DOMAIN reg.by_name
             /\ last'.arg \in DOMAIN reg.by_name
             /\ last'.arg # last'.name )
           => (last'.result = "ALREADY_EXISTS" /\ StoreUnchanged)
      ]_vars


\* C14: every stored edge's rel_type_key is the key of a relationship type
\* registered in the registry.
EdgeTypesRegistered ==
    \A i \in 1 .. Len(db_edges) : db_edges[i].rel_type_key \in DOMAIN reg.by_key


\* C15: every stored layer's role_key is the key of a role registered in the
\* registry.
LayerRolesRegistered ==
    \A h \in DOMAIN db_layers : db_layers[h] \in DOMAIN reg.by_key


\* the stored layers whose role_key is key
LayersOf(key) == {h \in DOMAIN db_layers : db_layers[h] = key}

\* C34: on the server the ref_count of every role equals the number of stored
\* layers whose role_key is the role's key, so that a role.delete without
\* migrate_to of an unprotected role is ORPHAN_BLOCKED exactly when some
\* stored layer references the role.
RefCountIsLayerCount ==
    /\ [](kind = "role" =>
            \A k \in DOMAIN reg.by_key :
                ref_count_of(reg.by_key[k]) = Cardinality(LayersOf(k)))
    /\ [][ ( /\ Handled("role.delete")
             /\ last'.arg = None
             /\ last'.name \in DOMAIN reg.by_name
             /\ ~reg.by_key[reg.by_name[last'.name]].protected )
           => ( last'.result = "ORPHAN_BLOCKED"
                <=> LayersOf(reg.by_name[last'.name]) # {} ) ]_vars

\* ------------------------------------------------------------ wire frames
\* protocol.ok / error / pong / welcome / event: the type, the id the frame
\* carries (request id, or event_id for an event; 0 when it has none) and,
\* for an error its code, for an event how it was sent (live or replay).
Frame(t, id, x) == [t |-> t, id |-> id, x |-> x]

\* the message types Router._dispatch knows (those this model sends)
DispatchTypes == {"hello", "ping", "bye", "subscribe", "role.list", "role.rename_label"}

\* what the handler of `type` returns when it does not raise
handler_reply(type, rid) ==
    CASE type = "ping"  -> <<Frame("pong", rid, "")>>
      [] type = "bye"   -> <<>>
      [] type = "hello" -> <<Frame("welcome", rid, "")>>
      [] OTHER          -> <<Frame("ok", rid, "")>>

dispatchSilent(type, rid, raised) ==
    IF type \notin DispatchTypes
    THEN <<Frame("error", rid, "UNKNOWN_TYPE")>>
    ELSE IF raised
    THEN <<>>
    ELSE handler_reply(type, rid)

\* Router.dispatch: the frames _message_loop sends for one request
dispatch(type, rid, raised) ==
    IF type \notin DispatchTypes
    THEN <<Frame("error", rid, "UNKNOWN_TYPE")>>
    ELSE IF raised
    THEN <<Frame("error", rid, "INTERNAL")>>
    ELSE handler_reply(type, rid)

\* the id the client gives its next request on this connection
NextRid(c) == Len(recv[c]) + 1

\* subscribe without project_id: msg["project_id"] raises KeyError
Raises(type) == type = "subscribe"

\* _handle_hello opens a session to write the session record: it can raise
MayRaise(type) == type = "hello"

\* EventRepo.get_since_sequence on a log whose occurred_at rises with every
\* row (EventRepo_get_since_sequence is the query on any log): the events
\* after the anchor; none when the anchor id is not in the log
get_since_sequence(evs, last_id) ==
    LET at == {i \in 1 .. Len(evs) : evs[i].id = last_id} IN
    IF at = {} THEN <<>>
    ELSE SubSeq(evs, (CHOOSE i \in at : TRUE) + 1, Len(evs))

\* AsyncClient._last_event_id: the event_id of the last event frame received
client_cursor(c) ==
    LET at == {i \in 1 .. Len(inbox[c]) : inbox[c][i].t = "event"} IN
    IF at = {} THEN 0
    ELSE inbox[c][CHOOSE i \in at : \A j \in at : j <= i].id

\* get_session leaving the block: commit, or rollback and re-raise
session_exit_swallow(dbok) == "committed"

session_exit(dbok) == IF dbok THEN "committed" ELSE "raised"

LiveStoreUnchanged ==
    UNCHANGED <<kind, db_layers, db_edges, nextKey, nextHolder, nops, last>>

\* ------------------------------------------------------------ connection task
\* _handshake: the hello is read, the client is registered, the welcome is
\* written; a hello that carries a last_event_id goes on to the replay.
_handshake(c) ==
    /\ pc[c] = "closed" /\ nin < MaxInput
    /\ \A d \in Earlier(c) : inbox[d] # <<>>
    /\ LET lid == client_cursor(c) IN
       /\ clients' = clients \cup {c}
       /\ last_event_id' = [last_event_id EXCEPT ![c] = lid]
       /\ hello_last' = [hello_last EXCEPT ![c] = lid]
       /\ hs_at' = [hs_at EXCEPT ![c] = Len(inbox[c])]
       /\ inbox' = [inbox EXCEPT ![c] = Append(@, Frame("welcome", 0, ""))]
       /\ recv' = [recv EXCEPT ![c] = <<>>]
       /\ pc' = [pc EXCEPT ![c] = IF lid # 0 THEN "replay_read" ELSE "live"]
    /\ nin' = nin + 1
    /\ UNCHANGED <<missed, cur, bcast, nextEvent>>
    /\ UNCHANGED regvars
    /\ UNCHANGED <<subvars, extvars>>

\* _replay_missed_events, the read: a failure is logged and ends the replay
_replay_read(c, dbok) ==
    /\ pc[c] = "replay_read"
    /\ missed' = [missed EXCEPT ![c] =
                    IF dbok THEN get_since_sequence(events, hello_last[c]) ELSE <<>>]
    /\ pc' = [pc EXCEPT ![c] = IF dbok THEN "replay_send" ELSE "live"]
    /\ UNCHANGED <<clients, last_event_id, hello_last, inbox, hs_at, recv, cur,
                   bcast, nextEvent, nin>>
    /\ UNCHANGED regvars
    /\ UNCHANGED <<subvars, extvars>>

ReplayFrames(evs) == [i \in 1 .. Len(evs) |-> Frame("event", evs[i].id, "replay")]

\* _replay_missed_events, the sends; then the message loop starts
_replay_send(c) ==
    /\ pc[c] = "replay_send"
    /\ inbox' = [inbox EXCEPT ![c] = @ \o ReplayFrames(missed[c])]
    /\ missed' = [missed EXCEPT ![c] = <<>>]
    /\ pc' = [pc EXCEPT ![c] = "live"]
    /\ UNCHANGED <<clients, last_event_id, hello_last, hs_at, recv, cur,
                   bcast, nextEvent, nin>>
    /\ UNCHANGED regvars
    /\ UNCHANGED <<subvars, extvars>>

unregisterKeepIndex(c) ==
    /\ clients' = clients \ {c}
    /\ subscriptions' = [subscriptions EXCEPT ![c] = {}]
    /\ project_subs' = project_subs
    /\ last_event_id' = [last_event_id EXCEPT ![c] = 0]
    /\ hello_last' = [hello_last EXCEPT ![c] = 0]
    /\ recv' = [recv EXCEPT ![c] = <<>>]

\* ConnectionManager.unregister, from the connection handler's finally: the
\* client is popped and its subscription indexes are cleaned
unregister(c) ==
    /\ clients' = clients \ {c}
    /\ subscriptions' = [subscriptions EXCEPT ![c] = {}]
    /\ project_subs' = [p \in Projects |->
                          IF p \in subscriptions[c] THEN project_subs[p] \ {c}
                          ELSE project_subs[p]]
    /\ last_event_id' = [last_event_id EXCEPT ![c] = 0]
    /\ hello_last' = [hello_last EXCEPT ![c] = 0]
    /\ recv' = [recv EXCEPT ![c] = <<>>]

\* _message_loop, a frame whose handler does not wait: parse, dispatch, send
_message_loop(c, type, raised) ==
    /\ pc[c] = "live" /\ nin < MaxInput
    /\ Raises(type) => raised
    /\ raised => (Raises(type) \/ MayRaise(type))
    /\ nin' = nin + 1
    /\ recv' = [recv EXCEPT ![c] = Append(@, [rid |-> NextRid(c), type |-> type])]
    /\ inbox' = [inbox EXCEPT ![c] = @ \o dispatch(type, NextRid(c), raised)]
    /\ UNCHANGED <<pc, clients, last_event_id, hello_last, missed, hs_at, cur,
                   bcast, nextEvent>>
    /\ UNCHANGED regvars
    /\ UNCHANGED <<subvars, extvars>>

\* _message_loop, a frame Message.parse rejects: error(None, INVALID), continue
_message_loop_malformed(c) ==
    /\ pc[c] = "live" /\ nin < MaxInput
    /\ nin' = nin + 1
    /\ inbox' = [inbox EXCEPT ![c] = Append(@, Frame("error", 0, "INVALID"))]
    /\ UNCHANGED <<pc, clients, last_event_id, hello_last, missed, hs_at, recv,
                   cur, bcast, nextEvent>>
    /\ UNCHANGED regvars
    /\ UNCHANGED <<subvars, extvars>>

\* _message_loop, bye: no reply, the socket is closed and the loop left
_message_loop_bye(c) ==
    /\ pc[c] = "live" /\ nin < MaxInput
    /\ nin' = nin + 1
    /\ inbox' = [inbox EXCEPT ![c] = @ \o dispatch("bye", NextRid(c), FALSE)]
    /\ pc' = [pc EXCEPT ![c] = "closed"]
    /\ unregister(c)
    /\ UNCHANGED <<missed, hs_at, cur, bcast, nextEvent>>
    /\ UNCHANGED regvars
    /\ UNCHANGED extvars

\* the transport drops while the loop waits for a frame (within the bound on
\* inputs: only while the endpoint can still come back)
Disconnect(c) ==
    /\ pc[c] = "live" /\ nin < MaxInput
    /\ pc' = [pc EXCEPT ![c] = "closed"]
    /\ unregister(c)
    /\ UNCHANGED <<missed, inbox, hs_at, cur, bcast, nextEvent, nin>>
    /\ UNCHANGED regvars
    /\ UNCHANGED extvars


\* ------------------------------------------------- a mutating handler, by await
\* _handle_role_label on the seeded role, up to its session: the registry
\* change is applied, the session opened, the row saved and the event appended
\* (its id is drawn when the row is flushed); the task then waits for the commit.
role_label_begin(c, new_label) ==
    /\ pc[c] = "live" /\ nin < MaxInput
    /\ nin' = nin + 1
    /\ recv' = [recv EXCEPT ![c] = Append(@, [rid |-> NextRid(c), type |-> "role.rename_label"])]
    /\ reg' = rename_label(reg, SeedName(kind), new_label).reg
    /\ cur' = [cur EXCEPT ![c] = [rid |-> NextRid(c), ev |-> nextEvent]]
    /\ nextEvent' = nextEvent + 1
    /\ pc' = [pc EXCEPT ![c] = "in_session"]
    /\ UNCHANGED <<clients, last_event_id, hello_last, missed, inbox, hs_at,
                   bcast>>
    /\ UNCHANGED <<db_roles, events>>
    /\ LiveStoreUnchanged
    /\ UNCHANGED <<subvars, extvars>>

\* the session ends: the row and the event become visible together, or the
\* commit raises, nothing is written and dispatch answers INTERNAL
role_label_session(c, dbok) ==
    /\ pc[c] = "in_session"
    /\ IF dbok
       THEN /\ db_roles' = save_role(db_roles, reg.by_key[SeedKey])
            /\ events' = Append(events, [id |-> cur[c].ev, type |-> "role.label_changed"])
       ELSE UNCHANGED <<db_roles, events>>
    /\ IF session_exit(dbok) = "raised"
       THEN /\ inbox' = [inbox EXCEPT ![c] =
                           @ \o dispatch("role.rename_label", cur[c].rid, TRUE)]
            /\ cur' = [cur EXCEPT ![c] = [rid |-> 0, ev |-> 0]]
            /\ pc' = [pc EXCEPT ![c] = "live"]
       ELSE /\ pc' = [pc EXCEPT ![c] = "committed"]
            /\ UNCHANGED <<inbox, cur>>
    /\ UNCHANGED <<clients, last_event_id, hello_last, missed, hs_at, recv,
                   bcast, nextEvent, nin>>
    /\ UNCHANGED reg
    /\ LiveStoreUnchanged
    /\ UNCHANGED <<subvars, extvars>>

\* ConnectionManager.broadcast_event (no project scope): every registered
\* client's last_event_id is set, then the frame is written to every
\* registered client but the originator
broadcast_event(c) ==
    /\ pc[c] = "committed"
    /\ last_event_id' = [x \in Conns |->
                           IF x \in clients THEN cur[c].ev ELSE last_event_id[x]]
    /\ inbox' = [x \in Conns |->
                   IF x \in clients \ {c}
                   THEN Append(inbox[x], Frame("event", cur[c].ev, "live"))
                   ELSE inbox[x]]
    /\ bcast' = bcast \cup {cur[c].ev}
    /\ pc' = [pc EXCEPT ![c] = "broadcast"]
    /\ UNCHANGED <<clients, hello_last, missed, hs_at, recv, cur, nextEvent,
                   nin>>
    /\ UNCHANGED regvars
    /\ UNCHANGED <<subvars, extvars>>

\* the handler returns ok and _message_loop sends it
role_label_reply(c) ==
    /\ pc[c] = "broadcast"
    /\ inbox' = [inbox EXCEPT ![c] =
                   @ \o dispatch("role.rename_label", cur[c].rid, FALSE)]
    /\ cur' = [cur EXCEPT ![c] = [rid |-> 0, ev |-> 0]]
    /\ pc' = [pc EXCEPT ![c] = "live"]
    /\ UNCHANGED <<clients, last_event_id, hello_last, missed, hs_at, recv,
                   bcast, nextEvent, nin>>
    /\ UNCHANGED regvars
    /\ UNCHANGED <<subvars, extvars>>

\* ------------------------------------------------------------ SpecLive
LoopTypes == {"ping", "hello", "subscribe", "nope"}

InitLive ==
    /\ kind = "role"
    /\ InitStore
    /\ InitConns

NextLive ==
    \/ \E c \in Conns : _handshake(c)
    \/ \E c \in Conns, ok \in BOOLEAN : _replay_read(c, ok)
    \/ \E c \in Conns : _replay_send(c)
    \/ \E c \in Conns, t \in LoopTypes, r \in BOOLEAN : _message_loop(c, t, r)
    \/ \E c \in Conns : _message_loop_malformed(c)
    \/ \E c \in Conns : _message_loop_bye(c)
    \/ \E c \in Conns : Disconnect(c)
    \/ \E c \in Conns : role_label_begin(c, "B")
    \/ \E c \in Conns, ok \in BOOLEAN : role_label_session(c, ok)
    \/ \E c \in Conns : broadcast_event(c)
    \/ \E c \in Conns : role_label_reply(c)

SpecLive == InitLive /\ [][NextLive]_vars


\* uuid.uuid4() of protocol._new_id for the frame built while the server reads
\* its (nin + 1)-th message: an id no row of the event log has
_new_id == 0 - (nin + 1)

\* relationship.create of a system type, in the message loop: the edge is
\* saved, no event row is appended, broadcast_event is called without an
\* event_id -- no last_event_id is set and protocol.event gives the frame a
\* new id -- and ok is sent
relationship_created(c, pair) ==
    /\ pc[c] = "live" /\ nin < MaxInput
    /\ nin' = nin + 1
    /\ recv' = [recv EXCEPT ![c] = Append(@, [rid |-> NextRid(c),
                                             type |-> "relationship.create"])]
    /\ db_edges' = RelationshipRepo_save(db_edges, Edge(pair, SeedKey))
    /\ inbox' = [x \in Conns |->
                   IF x = c THEN Append(inbox[x], Frame("ok", NextRid(c), ""))
                   ELSE IF x \in clients
                   THEN Append(inbox[x], Frame("event", _new_id, "live"))
                   ELSE inbox[x]]
    /\ UNCHANGED <<pc, clients, last_event_id, hello_last, missed, hs_at, cur,
                   bcast, nextEvent>>
    /\ UNCHANGED <<kind, reg, db_roles, db_layers, events, nextKey, nextHolder,
                   nops, last>>
    /\ UNCHANGED <<subvars, extvars>>

NextCursor ==
    \/ NextLive
    \/ \E c \in Conns, e \in EdgePairs : relationship_created(c, e)

SpecCursor == InitLive /\ [][NextCursor]_vars

\* _handshake when the socket is gone before the welcome is written: the
\* client is registered, ws.send raises, the exception leaves _handshake and
\* _connection_handler's finally finds client still None: the handler ends
\* without unregister
_handshake_send_raises(c) ==
    /\ pc[c] = "closed" /\ nin < MaxInput
    /\ \A d \in Earlier(c) : inbox[d] # <<>>
    /\ c \notin clients
    /\ clients' = clients \cup {c}
    /\ last_event_id' = [last_event_id EXCEPT ![c] = client_cursor(c)]
    /\ nin' = nin + 1
    /\ UNCHANGED <<pc, hello_last, missed, inbox, hs_at, recv, cur, bcast,
                   nextEvent>>
    /\ UNCHANGED regvars
    /\ UNCHANGED <<subvars, extvars>>

NextHandshake ==
    \/ NextLive
    \/ \E c \in Conns : _handshake_send_raises(c)

SpecHandshake == InitLive /\ [][NextHandshake]_vars

\* ------------------------------------------------------------ claims, SpecLive
IsEvent(f) == f.t = "event"
EventIds   == {events[i].id : i \in 1 .. Len(events)}
LogPos(e)  == CHOOSE i \in 1 .. Len(events) : events[i].id = e

\* the frames written to c on its current connection, after the welcome
Session(c) == SubSeq(inbox[c], hs_at[c] + 2, Len(inbox[c]))

\* C6: no endpoint is sent the same event twice, live and replay counted together.
DeliveredAtMostOnce ==
    \A c \in Conns : \A i, j \in 1 .. Len(inbox[c]) :
        (i < j /\ IsEvent(inbox[c][i]) /\ IsEvent(inbox[c][j]))
        => inbox[c][i].id # inbox[c][j].id

\* C7: on a connection whose hello carried a last_event_id, the replayed
\* events are written in log order and no live event is written before or
\* between them.
ReplayBeforeLive ==
    \A c \in Conns : \A i, j \in 1 .. Len(Session(c)) :
        (i < j /\ IsEvent(Session(c)[j]) /\ Session(c)[j].x = "replay")
        => /\ ~(IsEvent(Session(c)[i]) /\ Session(c)[i].x = "live")
           /\ (IsEvent(Session(c)[i]) /\ Session(c)[i].x = "replay")
              => LogPos(Session(c)[i].id) < LogPos(Session(c)[j].id)

\* C26: a broadcast_event sets the last_event_id of exactly the clients to
\* which it writes the event frame: the cursor of a client that gets no
\* frame, the originator among them, stays as it was.
CursorFollowsDelivery ==
    [][ \A c \in Conns :
          (pc[c] = "committed" /\ pc'[c] = "broadcast")
          => \A x \in Conns :
                (last_event_id'[x] # last_event_id[x])
                <=> (Len(inbox'[x]) > Len(inbox[x])) ]_vars

\* C36: every event frame the server writes carries the id of a row of the
\* event log, and so does every last_event_id a reconnecting client sends in
\* its hello.
CursorNamesLoggedEvent ==
    /\ \A c \in Conns : \A i \in 1 .. Len(inbox[c]) :
          IsEvent(inbox[c][i]) => inbox[c][i].id \in EventIds
    /\ \A c \in Conns : hello_last[c] # 0 => hello_last[c] \in EventIds

\* C37: once the connection handler of an endpoint has ended, the endpoint's
\* client is registered no longer: it is in neither clients nor project_subs,
\* whether the handler ended after the message loop or because the welcome
\* or the replay could not be sent.
HandlerEndedUnregistered ==
    \A c \in Conns :
        pc[c] = "closed"
        => (c \notin clients /\ \A p \in Projects : c \notin project_subs[p])

\* C8: the live events written to an endpoint follow the order of the event
\* log: an event committed earlier is never written after one committed later.
LiveInLogOrder ==
    \A c \in Conns : \A i, j \in 1 .. Len(inbox[c]) :
        ( /\ i < j
          /\ IsEvent(inbox[c][i]) /\ inbox[c][i].x = "live"
          /\ IsEvent(inbox[c][j]) /\ inbox[c][j].x = "live"
          /\ inbox[c][i].id \in EventIds /\ inbox[c][j].id \in EventIds )
        => LogPos(inbox[c][i].id) < LogPos(inbox[c][j].id)

\* the replies written on the current connection, and the requests they are due to
InLoop(c)  == pc[c] \in {"live", "in_session", "committed", "broadcast"}
Replies(c) == SelectSeq(Session(c), LAMBDA f : f.t # "event" /\ f.id # 0)
Answered(c) == IF pc[c] = "live" THEN recv[c] ELSE SubSeq(recv[c], 1, Len(recv[c]) - 1)

\* C9 as stated: on an open connection every request read so far has exactly
\* one reply carrying its id, the reply is ok or error, and the replies are in
\* the order of the requests.
OneOkOrErrorPerRequest ==
    \A c \in Conns : InLoop(c) =>
        /\ Len(Replies(c)) = Len(Answered(c))
        /\ \A i \in 1 .. Len(Replies(c)) :
              /\ Replies(c)[i].id = Answered(c)[i].rid
              /\ Replies(c)[i].t \in {"ok", "error"}

\* C9 amended: on an open connection every request read so far has exactly one
\* reply carrying its id, in the order of the requests: pong for a ping,
\* welcome for a hello, error UNKNOWN_TYPE for an unhandled type, error
\* INTERNAL when the handler raised, otherwise the handler's ok or error.
OneReplyPerRequest ==
    \A c \in Conns : InLoop(c) =>
        /\ Len(Replies(c)) = Len(Answered(c))
        /\ \A i \in 1 .. Len(Replies(c)) :
              LET f == Replies(c)[i]
                  r == Answered(c)[i]
              IN /\ f.id = r.rid
                 /\ CASE r.type = "ping"      -> f.t = "pong"
                      [] r.type = "hello"     -> f.t = "welcome" \/ (f.t = "error" /\ f.x = "INTERNAL")
                      [] r.type = "nope"      -> f.t = "error" /\ f.x = "UNKNOWN_TYPE"
                      [] r.type = "subscribe" -> f.t = "error" /\ f.x = "INTERNAL"
                      [] OTHER -> f.t = "ok" \/ (f.t = "error" /\ f.x = "INTERNAL")

\* C9 witness: two requests on one connection, the first answered with an
\* error, the second with a pong
TwoRepliesInOrder ==
    \E c \in Conns :
        /\ pc[c] = "live"
        /\ Len(recv[c]) = 2 /\ Len(Replies(c)) = 2
        /\ Replies(c)[1].t = "error" /\ Replies(c)[1].id = recv[c][1].rid
        /\ Replies(c)[2].t = "pong"  /\ Replies(c)[2].id = recv[c][2].rid

OkFrames == {p \in UNION {{<<c, i>> : i \in 1 .. Len(inbox[c])} : c \in Conns} :
                inbox[p[1]][p[2]].t = "ok"}

MissingFieldAnsweredInvalid ==
    /\ [](\A c \in Conns : InLoop(c) =>
            \A i \in 1 .. Len(Replies(c)) : \A j \in 1 .. Len(recv[c]) :
                (recv[c][j].rid = Replies(c)[i].id /\ Raises(recv[c][j].type))
                => (Replies(c)[i].t = "error" /\ Replies(c)[i].x = "INVALID"))
    /\ [][ (\E c \in Conns : _message_loop(c, "subscribe", TRUE))
           => UNCHANGED <<regvars, subvars, clients, last_event_id>> ]_vars

\* ------------------------------------------------------------ subscriptions
\* ConnectedClient.subscribes_to: an empty subscription set is the wildcard
subscribes_to(c, project_id) ==
    project_id \in subscriptions[c] \/ subscriptions[c] = {}

target_idsNoExclude(project_id, exclude) ==
    IF project_id # None
    THEN project_subs[project_id] \cup {c \in clients : subscriptions[c] = {}}
    ELSE clients

\* ConnectionManager.broadcast, the target set: the project's index and the
\* wildcard clients, or every client; the originator is taken out
target_ids(project_id, exclude) ==
    LET ids == IF project_id # None
               THEN project_subs[project_id] \cup {c \in clients : subscriptions[c] = {}}
               ELSE clients
    IN IF exclude # None THEN ids \ {exclude} ELSE ids

\* the variables the ConnectionManager operations leave alone
SubsFrame ==
    /\ UNCHANGED <<pc, missed, inbox, hs_at, cur, bcast, nextEvent, nin>>
    /\ UNCHANGED regvars
    /\ UNCHANGED <<rel_task, rel_reply, logvars, sessvars, clivars, resubvars,
                   graphvars, seedvars, tcvars>>

\* the subscribe calls of session c for project_id that came one after the
\* other just before this call, counted up to two
Streak(c, project_id) ==
    IF last_sub.op = "subscribe" /\ last_sub.c = c /\ last_sub.p = project_id
    THEN last_sub.subscribed ELSE 0

\* ConnectionManager.register: a new ConnectedClient, no subscription yet
register_client(c) ==
    /\ c \notin clients
    /\ clients' = clients \cup {c}
    /\ wsopen' = wsopen \cup {c}
    /\ subscriptions' = [subscriptions EXCEPT ![c] = {}]
    /\ UNCHANGED <<project_subs, last_event_id, hello_last, recv>>
    /\ sent' = NoSend
    /\ last_sub' = NoSub
    /\ SubsFrame

subscribeToggle(c, project_id) ==
    /\ IF c \in clients
       THEN IF project_id \in subscriptions[c]
            THEN /\ subscriptions' = [subscriptions EXCEPT ![c] = @ \ {project_id}]
                 /\ project_subs' = [project_subs EXCEPT ![project_id] = @ \ {c}]
            ELSE /\ subscriptions' = [subscriptions EXCEPT ![c] = @ \cup {project_id}]
                 /\ project_subs' = [project_subs EXCEPT ![project_id] = @ \cup {c}]
       ELSE UNCHANGED <<subscriptions, project_subs>>
    /\ last_sub' = [op |-> "subscribe", c |-> c, p |-> project_id,
                    subscribed |-> IF Streak(c, project_id) = 0 THEN 1 ELSE 2]
    /\ UNCHANGED <<clients, wsopen, last_event_id, hello_last, recv>>
    /\ sent' = NoSend
    /\ SubsFrame

\* ConnectionManager.subscribe: nothing happens for an unknown session
subscribe(c, project_id) ==
    /\ IF c \in clients
       THEN /\ subscriptions' = [subscriptions EXCEPT ![c] = @ \cup {project_id}]
            /\ project_subs' = [project_subs EXCEPT ![project_id] = @ \cup {c}]
       ELSE UNCHANGED <<subscriptions, project_subs>>
    /\ last_sub' = [op |-> "subscribe", c |-> c, p |-> project_id,
                    subscribed |-> IF Streak(c, project_id) = 0 THEN 1 ELSE 2]
    /\ UNCHANGED <<clients, wsopen, last_event_id, hello_last, recv>>
    /\ sent' = NoSend
    /\ SubsFrame

\* ConnectionManager.unsubscribe
unsubscribe(c, project_id) ==
    /\ IF c \in clients
       THEN /\ subscriptions' = [subscriptions EXCEPT ![c] = @ \ {project_id}]
            /\ project_subs' = [project_subs EXCEPT ![project_id] = @ \ {c}]
       ELSE UNCHANGED <<subscriptions, project_subs>>
    /\ last_sub' = [op |-> "unsubscribe", c |-> c, p |-> project_id,
                    subscribed |-> Streak(c, project_id)]
    /\ UNCHANGED <<clients, wsopen, last_event_id, hello_last, recv>>
    /\ sent' = NoSend
    /\ SubsFrame

\* the transport of a registered client closes; its handler has not yet
\* reached the finally that unregisters it
ws_closed(c) ==
    /\ c \in clients /\ c \in wsopen
    /\ wsopen' = wsopen \ {c}
    /\ UNCHANGED <<clients, subscriptions, project_subs, last_event_id,
                   hello_last, recv, last_sub>>
    /\ sent' = NoSend
    /\ SubsFrame

\* _connection_handler's finally
connection_finally(c) ==
    /\ c \in clients
    /\ unregister(c)
    /\ wsopen' = wsopen \ {c}
    /\ sent' = NoSend
    /\ last_sub' = NoSub
    /\ SubsFrame

\* ConnectionManager.broadcast: one send per target that is still registered;
\* a send on a closed socket returns False; the count is the sends that
\* returned True
broadcast(project_id, exclude) ==
    /\ exclude \in clients \cup {None}
    /\ LET tried   == target_ids(project_id, exclude) \cap clients
           reached == tried \cap wsopen
       IN sent' = [project |-> project_id, exclude |-> exclude, tried |-> tried,
                   to |-> reached, count |-> Cardinality(reached),
                   tick |-> 1]
    /\ UNCHANGED <<clients, wsopen, subscriptions, project_subs, last_event_id,
                   hello_last, recv, last_sub>>
    /\ SubsFrame

InitSubs ==
    /\ kind = "role"
    /\ InitStore
    /\ InitConns

NextSubs ==
    \/ \E c \in Conns : register_client(c)
    \/ \E c \in Conns, p \in Projects : subscribe(c, p)
    \/ \E c \in Conns, p \in Projects : unsubscribe(c, p)
    \/ \E c \in Conns : ws_closed(c)
    \/ \E c \in Conns : connection_finally(c)
    \/ \E p \in Projects \cup {None}, x \in Conns \cup {None} : broadcast(p, x)

SpecSubs == InitSubs /\ [][NextSubs]_vars

\* C35: once a session has unsubscribed from a project, a broadcast scoped
\* to that project is not sent to the session, also when the unsubscribe
\* left its subscription set empty.
UnsubscribedNotReached ==
    ( /\ sent.project # None
      /\ last_sub.op = "unsubscribe"
      /\ last_sub.p = sent.project )
    => last_sub.c \notin sent.to

\* C24: a session is in project_subs[P] exactly when P is in the
\* subscriptions of its registered client, every session in project_subs is
\* registered, and a session that has just been unregistered is in no index.
IndexesAgree ==
    /\ [](/\ \A c \in clients, p \in Projects :
                c \in project_subs[p] <=> p \in subscriptions[c]
          /\ \A p \in Projects : project_subs[p] \subseteq clients)
    /\ [][ \A c \in Conns :
              (c \in clients /\ c \notin clients')
              => \A p \in Projects : c \notin project_subs'[p] ]_vars

\* C24 witness: two registered sessions hold different subscriptions, a third
\* endpoint is not registered, and the reverse index lists both sessions
TwoSessionsIndexed ==
    \E a, b \in clients :
        /\ subscriptions[a] = {"P", "Q"}
        /\ subscriptions[b] = {"P"}
        /\ project_subs["P"] = {a, b}
        /\ project_subs["Q"] = {a}
        /\ clients # Conns

\* C25: a subscribe call that follows a subscribe call of the same session
\* and project changes nothing; after a subscribe call the registered session
\* is subscribed to the project, and after an unsubscribe call, whatever the
\* number of subscribe calls before it, it is not.
SubscribeIdempotent ==
    /\ [][ ( /\ last_sub.op = "subscribe" /\ last_sub'.op = "subscribe"
             /\ last_sub'.c = last_sub.c /\ last_sub'.p = last_sub.p
             /\ last_sub'.subscribed = 2 )
           => UNCHANGED <<subscriptions, project_subs>> ]_vars
    /\ []( (last_sub.op = "subscribe" /\ last_sub.c \in clients)
           => /\ last_sub.p \in subscriptions[last_sub.c]
              /\ last_sub.c \in project_subs[last_sub.p] )
    /\ []( last_sub.op = "unsubscribe"
           => /\ last_sub.p \notin subscriptions[last_sub.c]
              /\ last_sub.c \notin project_subs[last_sub.p] )

\* C25 witness: a registered session called subscribe for one project twice
\* and then unsubscribe once, and is subscribed to another project still
UnsubscribedAfterDouble ==
    /\ last_sub.op = "unsubscribe"
    /\ last_sub.subscribed = 2
    /\ last_sub.c \in clients
    /\ subscriptions[last_sub.c] # {}

\* C12: a broadcast scoped to project P is tried on exactly the registered
\* clients subscribed to P or with no subscription, an unscoped one on every
\* registered client, never on the excluded originator; it reaches those of
\* them whose socket is open, and the returned count is their number.
BroadcastReachesSubscribers ==
    [][ sent'.tick = 1
        => LET p  == sent'.project
               ex == sent'.exclude
               eligible == IF p = None THEN clients
                           ELSE {c \in clients : subscribes_to(c, p)}
           IN /\ sent'.tried = eligible \ {ex}
              /\ ex \notin sent'.to
              /\ sent'.to = sent'.tried \cap wsopen
              /\ sent'.count = Cardinality(sent'.to)
      ]_vars

\* C12 witness: a broadcast for P with the originator excluded reached a
\* client subscribed to P and a wildcard client, and passed over a client
\* subscribed to Q only
ScopedBroadcastSent ==
    /\ sent.project = "P"
    /\ \E a \in clients : subscriptions[a] = {"Q"} /\ a \notin sent.tried
    /\ \E b \in sent.to : "P" \in subscriptions[b]
    /\ \E c \in clients : subscriptions[c] = {} /\ (c \in sent.to \/ c = sent.exclude)
    /\ sent.count = Cardinality(sent.to)

\* ------------------------------------------ relationship.create, by await
\* the uq_relationships_edge constraint: no two rows of one triple
UniqueEdges(rows) ==
    \A i, j \in 1 .. Len(rows) : rows[i] = rows[j] => i = j

\* _handle_relationship_create up to RelationshipRepo.save's select: the type
\* is resolved, the session opened and the triple looked up
rel_create_select(c, pair) ==
    /\ rel_task[c].pc = "idle"
    /\ LET edge == Edge(pair, get_key(reg, SeedName(kind)).key) IN
       rel_task' = [rel_task EXCEPT ![c] =
                      [pc |-> "selected", edge |-> edge,
                       found |-> \E i \in 1 .. Len(db_edges) : db_edges[i] = edge]]
    /\ UNCHANGED <<wsopen, sent, rel_reply, subvars, livevars, regvars, latervars>>

\* the rest of the handler: the row is added when the select found none, the
\* session commits; the insert of a triple that another session has committed
\* since raises on the unique constraint, the session rolls back and dispatch
\* answers INTERNAL
rel_create_commit(c) ==
    /\ rel_task[c].pc = "selected"
    /\ LET edge   == rel_task[c].edge
           rows2  == IF rel_task[c].found THEN db_edges ELSE Append(db_edges, edge)
           result == IF UniqueEdges(rows2) THEN "ok" ELSE "INTERNAL"
       IN /\ db_edges' = IF result = "ok" THEN rows2 ELSE db_edges
          /\ rel_reply' = [rel_reply EXCEPT ![c] = result]
    /\ rel_task' = [rel_task EXCEPT ![c] = NoTask]
    /\ UNCHANGED <<kind, reg, db_roles, db_layers, events, nextKey, nextHolder,
                   nops, last>>
    /\ UNCHANGED <<wsopen, sent, subvars, livevars, latervars>>

\* relationship.remove of a stored triple
rel_remove(c, pair) ==
    /\ rel_task[c].pc = "idle"
    /\ LET edge == Edge(pair, get_key(reg, SeedName(kind)).key) IN
       /\ \E i \in 1 .. Len(db_edges) : db_edges[i] = edge
       /\ db_edges' = RelationshipRepo_delete(db_edges, edge)
    /\ rel_reply' = [rel_reply EXCEPT ![c] = "ok"]
    /\ UNCHANGED <<kind, reg, db_roles, db_layers, events, nextKey, nextHolder,
                   nops, last>>
    /\ UNCHANGED <<wsopen, sent, rel_task, subvars, livevars, latervars>>

InitEdges ==
    /\ kind = "rel"
    /\ InitStore
    /\ InitConns

NextEdges ==
    \/ \E c \in Conns, e \in EdgePairs : rel_create_select(c, e)
    \/ \E c \in Conns : rel_create_commit(c)
    \/ \E c \in Conns, e \in EdgePairs : rel_remove(c, e)

SpecEdges == InitEdges /\ [][NextEdges]_vars

\* C16: the relationships table never holds two rows of one triple, and every
\* relationship.create replies ok; when the triple is already stored the
\* table is left as it is.
EdgeCreateIdempotent ==
    [][ /\ UniqueEdges(db_edges')
        /\ \A c \in Conns :
              (rel_task[c].pc = "selected" /\ rel_task'[c].pc = "idle")
              => /\ rel_reply'[c] = "ok"
                 /\ (\E i \in 1 .. Len(db_edges) : db_edges[i] = rel_task[c].edge)
                    => db_edges' = db_edges
      ]_vars

\* ------------------------------------- entities and the dependency queries
GraphFrame ==
    UNCHANGED <<livevars, subvars, wsopen, sent, rel_task, rel_reply, logvars,
                sessvars, clivars, resubvars, histvars, seedvars, tcvars>>

\* entity.create, as far as the store goes: _build_entity constructs the core
\* object (a Shot with a sequence_id declares its member_of edge on the object
\* in memory), EntityRepo.save inserts the one entities row, whose attributes
\* carry the sequence_id, and the entity.created event is appended. The
\* relationships table is not written. sequence_id is {} when the request
\* carries none, and the one id otherwise.
_handle_entity_create_graph(entity_type, sequence_id, dbok) ==
    /\ kind = "rel" /\ nops < MaxOps
    /\ nextHolder <= MaxHolder
    /\ entity_type = "sequence" => sequence_id = {}
    /\ IF dbok
       THEN /\ db_entities' = Put(db_entities, nextHolder,
                                  [entity_type |-> entity_type,
                                   sequence_id |-> sequence_id])
            /\ events' = Append(events, [id |-> Len(events) + 1,
                                         type |-> "entity.created"])
            /\ nextHolder' = nextHolder + 1
       ELSE UNCHANGED <<db_entities, events, nextHolder>>
    /\ nops' = nops + 1
    /\ last' = [op |-> "entity.create", name |-> entity_type, arg |-> None,
                result |-> IF dbok THEN "ok" ELSE "INTERNAL", committed |-> dbok]
    /\ UNCHANGED <<kind, reg, db_roles, db_layers, db_edges, nextKey, q_reply>>
    /\ GraphFrame

\* RelationshipRepo.get_dependents: the source of every row arriving at entity_id
get_dependents(rows, entity_id) ==
    LET hit == SelectSeq(rows, LAMBDA r : r.target = entity_id)
    IN [i \in 1 .. Len(hit) |-> hit[i].source]

\* RelationshipRepo.get_dependencies: the target of every row leaving entity_id
get_dependencies(rows, entity_id) ==
    LET hit == SelectSeq(rows, LAMBDA r : r.source = entity_id)
    IN [i \in 1 .. Len(hit) |-> hit[i].target]

\* query.dependents / query.dependencies: read-only, answered ok with the ids
_handle_query_dependents(entity_id) ==
    /\ kind = "rel"
    /\ q_reply' = [op |-> "query.dependents", entity_id |-> entity_id,
                   ids |-> get_dependents(db_edges, entity_id)]
    /\ UNCHANGED <<regvars, db_entities>>
    /\ GraphFrame

_handle_query_dependencies(entity_id) ==
    /\ kind = "rel"
    /\ q_reply' = [op |-> "query.dependencies", entity_id |-> entity_id,
                   ids |-> get_dependencies(db_edges, entity_id)]
    /\ UNCHANGED <<regvars, db_entities>>
    /\ GraphFrame

EntityIds == 1 .. MaxHolder

NextGraph ==
    \/ \E t \in {"sequence", "shot"}, ok \in BOOLEAN :
          \E s \in {{}} \cup {{id} : id \in EntityIds} :
              _handle_entity_create_graph(t, s, ok)
    \/ \E e \in EdgePairs, n \in Names(kind), ok \in BOOLEAN :
          _handle_relationship_create(e, n, ok)
    \/ \E id \in EntityIds : _handle_query_dependents(id)
    \/ \E id \in EntityIds : _handle_query_dependencies(id)

SpecGraph == InitEdges /\ [][NextGraph]_vars

\* S is a stored sequence, H a stored shot whose sequence_id is S, and no
\* stored edge joins any other pair
ShotOfSequence(H, S) ==
    /\ S \in DOMAIN db_entities /\ db_entities[S].entity_type = "sequence"
    /\ H \in DOMAIN db_entities /\ db_entities[H].entity_type = "shot"
    /\ db_entities[H].sequence_id = {S}
    /\ \A i \in 1 .. Len(db_edges) :
          db_edges[i].source = H /\ db_edges[i].target = S

\* C29: once a shot H was created with the sequence_id of a stored sequence
\* S, query.dependents for S returns exactly [H] and query.dependencies for
\* H returns exactly [S].
ShotDependsOnSequence ==
    [][ \A H, S \in EntityIds :
          ShotOfSequence(H, S)
          => /\ (q_reply' # q_reply /\ q_reply'.op = "query.dependents"
                 /\ q_reply'.entity_id = S) => q_reply'.ids = <<H>>
             /\ (q_reply' # q_reply /\ q_reply'.op = "query.dependencies"
                 /\ q_reply'.entity_id = H) => q_reply'.ids = <<S>> ]_vars

\* ------------------------------------------------ version entities
\* the version numbers and status strings a request carries
VersionNumbers == {1, 2}
StatusValues   == {"pending", "approved"}

\* entity.create of a version: _build_entity constructs Version(version_number,
\* status), EntityRepo.save inserts its row: the status column and the
\* version_number attribute
_handle_entity_create_version(version_number, status, dbok) ==
    /\ kind = "rel" /\ nops < MaxOps
    /\ nextHolder <= MaxHolder
    /\ IF dbok
       THEN /\ db_entities' = Put(db_entities, nextHolder,
                                  [entity_type |-> "version",
                                   status |-> status,
                                   version_number |-> version_number])
            /\ events' = Append(events, [id |-> Len(events) + 1,
                                         type |-> "entity.created"])
            /\ nextHolder' = nextHolder + 1
       ELSE UNCHANGED <<db_entities, events, nextHolder>>
    /\ nops' = nops + 1
    /\ last' = [op |-> "entity.create", name |-> "version", arg |-> None,
                result |-> IF dbok THEN "ok" ELSE "INTERNAL", committed |-> dbok]
    /\ UNCHANGED <<kind, reg, db_roles, db_layers, db_edges, nextKey, q_reply>>
    /\ GraphFrame

\* entity.update of a stored version: the entity is loaded, msg.status (None
\* when absent) is set when the entity has a status, each attribute the entity
\* has is set with setattr (version_number here: {} when absent), the row is
\* saved and entity.updated appended. The entity type is not looked at.
_handle_entity_update_version(entity_id, status, version_number, dbok) ==
    /\ kind = "rel" /\ nops < MaxOps
    /\ IF entity_id \notin DOMAIN db_entities
       THEN /\ last' = [op |-> "entity.update", name |-> "version", arg |-> None,
                        result |-> "NOT_FOUND", committed |-> FALSE]
            /\ UNCHANGED <<db_entities, events>>
       ELSE LET entity == db_entities[entity_id]
                e1 == IF status # None THEN [entity EXCEPT !.status = status]
                      ELSE entity
                e2 == IF version_number # {}
                      THEN [e1 EXCEPT !.version_number =
                                 CHOOSE n \in version_number : TRUE]
                      ELSE e1
            IN /\ IF dbok
                  THEN /\ db_entities' = Put(db_entities, entity_id, e2)
                       /\ events' = Append(events, [id |-> Len(events) + 1,
                                                    type |-> "entity.updated"])
                  ELSE UNCHANGED <<db_entities, events>>
               /\ last' = [op |-> "entity.update", name |-> "version", arg |-> None,
                           result |-> IF dbok THEN "ok" ELSE "INTERNAL",
                           committed |-> dbok]
    /\ nops' = nops + 1
    /\ UNCHANGED <<kind, reg, db_roles, db_layers, db_edges, nextKey, nextHolder,
                   q_reply>>
    /\ GraphFrame

NextVersion ==
    \/ \E n \in VersionNumbers, st \in StatusValues, ok \in BOOLEAN :
          _handle_entity_create_version(n, st, ok)
    \/ \E id \in EntityIds, st \in StatusValues \cup {None}, ok \in BOOLEAN :
          \E n \in {{}} \cup {{v} : v \in VersionNumbers} :
              _handle_entity_update_version(id, st, n, ok)

SpecVersion == InitEdges /\ [][NextVersion]_vars

\* C31: no request changes the stored fields of an existing version.
VersionImmutable ==
    [][ \A id \in DOMAIN db_entities :
          (db_entities[id].entity_type = "version" /\ id \in DOMAIN db_entities')
          => db_entities'[id] = db_entities[id] ]_vars

\* ------------------------------------------------ Registry.default()
\* vocabulary.STANDARD_ROLES, in the order of the dict: name and role_class
STANDARD_ROLES ==
    << [name |-> "primary",    role_class |-> "track"],
       [name |-> "reference",  role_class |-> "track"],
       [name |-> "matte",      role_class |-> "track"],
       [name |-> "background", role_class |-> "track"],
       [name |-> "foreground", role_class |-> "track"],
       [name |-> "color",      role_class |-> "track"],
       [name |-> "audio",      role_class |-> "track"],
       [name |-> "raw",        role_class |-> "media"],
       [name |-> "grade",      role_class |-> "media"],
       [name |-> "denoise",    role_class |-> "media"],
       [name |-> "prep",       role_class |-> "media"],
       [name |-> "roto",       role_class |-> "media"],
       [name |-> "comp",       role_class |-> "media"] >>

StandardNames == {STANDARD_ROLES[i].name : i \in 1 .. Len(STANDARD_ROLES)}

\* a well-known UUID: the constant block it lies in and its last digits
WellKnown(block, n) == [block |-> block, n |-> n]

\* registry.STANDARD_ROLE_KEYS
STANDARD_ROLE_KEYS ==
    [name \in {"primary", "reference", "matte", "background", "foreground",
               "color", "audio"} |->
        CASE name = "primary"    -> WellKnown("10000000", 1)
          [] name = "reference"  -> WellKnown("10000000", 2)
          [] name = "matte"      -> WellKnown("10000000", 3)
          [] name = "background" -> WellKnown("10000000", 4)
          [] name = "foreground" -> WellKnown("10000000", 5)
          [] name = "color"      -> WellKnown("10000000", 6)
          [] name = "audio"      -> WellKnown("10000000", 7)]

\* traits.SYSTEM_REL_KEYS
SYSTEM_REL_KEYS ==
    [name \in {"member_of", "version_of", "derived_from", "references",
               "peer_of", "consumes", "produces"} |->
        CASE name = "member_of"    -> WellKnown("00000000", 1)
          [] name = "version_of"   -> WellKnown("00000000", 2)
          [] name = "derived_from" -> WellKnown("00000000", 3)
          [] name = "references"   -> WellKnown("00000000", 4)
          [] name = "peer_of"      -> WellKnown("00000000", 5)
          [] name = "consumes"     -> WellKnown("00000000", 6)
          [] name = "produces"     -> WellKnown("00000000", 7)]

\* the names of _seed's _builtin_rel_types, in the order of the dict
_builtin_rel_types ==
    <<"member_of", "version_of", "derived_from", "references", "peer_of">>

\* uuid.uuid4() drawn for the role `name`: a random value, one of two here,
\* that neither a well-known UUID nor the draw for another name equals
uuid4(name, draw) == [block |-> name, n |-> IF draw THEN 1 ELSE 2]

\* _seed, the roles: each standard role is registered protected, under
\* STANDARD_ROLE_KEYS.get(name, uuid.uuid4())
RECURSIVE seed_roles(_, _, _)
seed_roles(r, i, draws) ==
    IF i > Len(STANDARD_ROLES) THEN r
    ELSE LET name == STANDARD_ROLES[i].name
             key  == IF name \in DOMAIN STANDARD_ROLE_KEYS
                     THEN STANDARD_ROLE_KEYS[name]
                     ELSE uuid4(name, draws[name])
         IN seed_roles(register(r, name, key, "A", TRUE).reg, i + 1, draws)

\* _seed, the relationship types: each built-in type is registered
\* protected, under SYSTEM_REL_KEYS[name]
RECURSIVE seed_rel_types(_, _)
seed_rel_types(r, i) ==
    IF i > Len(_builtin_rel_types) THEN r
    ELSE LET name == _builtin_rel_types[i]
         IN seed_rel_types(register(r, name, SYSTEM_REL_KEYS[name], "A", TRUE).reg,
                           i + 1)

\* Registry.default() in process p; draws holds the uuid4 of each name that
\* has no well-known key
Registry_default(p, draws) ==
    /\ ~default_reg[p].created
    /\ default_reg' = [default_reg EXCEPT ![p] =
                         [created |-> TRUE,
                          roles |-> seed_roles(EmptyRegistry, 1, draws),
                          relationships |-> seed_rel_types(EmptyRegistry, 1)]]
    /\ UNCHANGED <<regvars, livevars, subvars, wsopen, sent, rel_task, rel_reply,
                   logvars, sessvars, clivars, resubvars, histvars, graphvars,
                   tcvars>>

NextSeed ==
    \E p \in Processes :
        \E draws \in [StandardNames \ DOMAIN STANDARD_ROLE_KEYS -> BOOLEAN] :
            Registry_default(p, draws)

SpecSeed == Init /\ [][NextSeed]_vars

\* every entry of the registry r is protected
AllProtected(r) == \A k \in DOMAIN r.by_key : r.by_key[k].protected

\* C30: every default registry holds the thirteen standard roles and all
\* system relationship types, each protected, and any two default registries
\* bind each of these names to the same key.
DefaultSeedsFixedKeys ==
    /\ Len(STANDARD_ROLES) = 13
    /\ \A p \in Processes : default_reg[p].created =>
          /\ DOMAIN default_reg[p].roles.by_name = StandardNames
          /\ DOMAIN default_reg[p].relationships.by_name = DOMAIN SYSTEM_REL_KEYS
          /\ AllProtected(default_reg[p].roles)
          /\ AllProtected(default_reg[p].relationships)
    /\ \A p, q \in Processes :
          (default_reg[p].created /\ default_reg[q].created) =>
             /\ default_reg[p].roles.by_name = default_reg[q].roles.by_name
             /\ default_reg[p].relationships.by_name
                = default_reg[q].relationships.by_name

\* ------------------------------------------------ Timecode
\* the frame rates, as Fraction(num, den): 24, 25, 30/1.001 and 60
FrameRates == { [num |-> 24, den |-> 1], [num |-> 25, den |-> 1],
                [num |-> 30000, den |-> 1001], [num |-> 60, den |-> 1] }

\* int(fps)
IntFps(fps) == fps.num \div fps.den

\* the field values the timecodes are built from
TcHours   == {0, 1}
TcMinutes == {0, 1, 59}
TcSeconds == {0, 1, 2, 59}
TcFrames(fps) == {0, 1, IntFps(fps) - 1}

\* Timecode(hours, minutes, seconds, frames, fps, drop_frame)
Timecode(hours, minutes, seconds, frames, fps, drop_frame) ==
    [made |-> TRUE, hours |-> hours, minutes |-> minutes, seconds |-> seconds,
     frames |-> frames, fps |-> fps, drop_frame |-> drop_frame]

\* Timecode.to_frames: int(total_seconds * fps) + frames
to_frames(t) ==
    ((t.hours * 3600 + t.minutes * 60 + t.seconds) * t.fps.num) \div t.fps.den
    + t.frames

\* Timecode.from_frames: divmod by int(fps), by 60 and by 60; drop_frame is
\* left at its default
from_frames(frame_number, fps) ==
    LET total_seconds == frame_number \div IntFps(fps)
        frames        == frame_number % IntFps(fps)
        minutes       == total_seconds \div 60
        seconds       == total_seconds % 60
    IN Timecode(minutes \div 60, minutes % 60, seconds, frames, fps, FALSE)

\* a Timecode is constructed
Timecode_new(h, m, sec, f, fps, drop) ==
    /\ ~tc.made
    /\ tc' = Timecode(h, m, sec, f, fps, drop)
    /\ UNCHANGED <<tc_back, regvars, livevars, subvars, wsopen, sent, rel_task,
                   rel_reply, logvars, sessvars, clivars, resubvars, histvars,
                   graphvars, seedvars>>

\* Timecode.from_frames(tc.to_frames(), tc.fps)
Timecode_round_trip ==
    /\ tc.made /\ ~tc_back.made
    /\ tc_back' = from_frames(to_frames(tc), tc.fps)
    /\ UNCHANGED <<tc, regvars, livevars, subvars, wsopen, sent, rel_task,
                   rel_reply, logvars, sessvars, clivars, resubvars, histvars,
                   graphvars, seedvars>>

NextTimecode ==
    \/ \E h \in TcHours, m \in TcMinutes, sec \in TcSeconds, fps \in FrameRates,
          drop \in BOOLEAN :
          \E f \in TcFrames(fps) : Timecode_new(h, m, sec, f, fps, drop)
    \/ Timecode_round_trip

SpecTimecode == Init /\ [][NextTimecode]_vars

\* C33: for every Timecode t, at each of the frame rates and with the
\* drop-frame flag set or not, from_frames(t.to_frames(), t.fps) equals t.
TimecodeRoundTrip == tc_back.made => tc_back = tc

\* ------------------------------------------------ the event log, replay
RowIds   == 1 .. MaxLog               \* uuid4 ids of event rows
Cursors  == 1 .. (MaxLog + 1)         \* a last_event_id: a row's id or no row's

\* the default of get_since_sequence's limit
ReplayLimit == 500

\* the rows as sequences without repetition
Orderings(S) ==
    {s \in [1 .. Cardinality(S) -> S] :
        \A i, j \in 1 .. Cardinality(S) : s[i] = s[j] => i = j}

\* ORDER BY occurred_at ASC: rows of one occurred_at come in any order
OrderByOccurredAt(S) ==
    {s \in Orderings(S) :
        \A i, j \in 1 .. Cardinality(S) :
            i < j => s[i].occurred_at <= s[j].occurred_at}

\* LIMIT n
Limit(s, n) == SubSeq(s, 1, IF Len(s) < n THEN Len(s) ELSE n)

\* EventRepo.get_since_sequence, the results the query can give: none when no
\* row has the cursor's id, else the rows whose occurred_at is greater than
\* the anchor's, by occurred_at, at most limit of them
EventRepo_get_since_sequence(rows, cursor, limit) ==
    LET anchor == {r \in rows : r.id = cursor} IN
    IF anchor = {} THEN {<<>>}
    ELSE LET a == CHOOSE r \in anchor : TRUE IN
         {Limit(s, limit) :
            s \in OrderByOccurredAt({r \in rows : r.occurred_at > a.occurred_at})}

\* EventRepo.append and the commit of its session: a row with a new uuid4 id,
\* occurred_at set by the server default now()
EventRepo_append(id, tick) ==
    /\ Cardinality(log_rows) < MaxLog
    /\ clock + tick <= MaxClock
    /\ \A r \in log_rows : r.id # id
    /\ clock' = clock + tick
    /\ log_rows' = log_rows \cup {[id |-> id, occurred_at |-> clock']}
    /\ replay' = [replay EXCEPT !.tick = 0]
    /\ UNCHANGED <<regvars, livevars, subvars, wsopen, sent, rel_task, rel_reply,
                   sessvars, clivars, resubvars, histvars, graphvars,
                   seedvars, tcvars>>

\* _handshake from the welcome on, for a hello that carries last_event_id:
\* the welcome is sent, then _replay_missed_events reads the log and sends
\* what it read; an exception of the read is logged and the handshake returns
_replay_missed_events(cursor, readok) ==
    /\ \E out \in EventRepo_get_since_sequence(log_rows, cursor, ReplayLimit) :
          replay' = [cursor |-> cursor, read |-> readok,
                     out |-> IF readok THEN out ELSE <<>>,
                     welcome |-> TRUE, tick |-> 1]
    /\ UNCHANGED <<log_rows, clock>>
    /\ UNCHANGED <<regvars, livevars, subvars, wsopen, sent, rel_task, rel_reply,
                   sessvars, clivars, resubvars, histvars, graphvars,
                   seedvars, tcvars>>

InitLog ==
    /\ kind = "role"
    /\ InitStore
    /\ InitConns

NextLog ==
    \/ \E id \in RowIds, tick \in {0, 1} : EventRepo_append(id, tick)
    \/ \E cursor \in Cursors, readok \in BOOLEAN : _replay_missed_events(cursor, readok)

SpecLog == InitLog /\ [][NextLog]_vars

\* the log order of the specification: occurred_at, then id
LogBefore(r, q) ==
    \/ r.occurred_at < q.occurred_at
    \/ r.occurred_at = q.occurred_at /\ r.id < q.id

\* C17: a replay whose read succeeded sent exactly the rows that come after
\* the cursor's row in log order (occurred_at, then id), in that order; for a
\* cursor that is no row's id it sent nothing; the welcome was sent either
\* way.
ReplayReadsAfterCursor ==
    replay.tick = 1
    => /\ replay.welcome
       /\ replay.read
          => LET anchor == {r \in log_rows : r.id = replay.cursor}
                 out == replay.out
             IN IF anchor = {} THEN out = <<>>
                ELSE LET a == CHOOSE r \in anchor : TRUE IN
                     /\ {out[i] : i \in 1 .. Len(out)}
                           = {r \in log_rows : LogBefore(a, r)}
                     /\ \A i, j \in 1 .. Len(out) : i < j => LogBefore(out[i], out[j])

\* ------------------------------------------------------ session rows
\* ClientSessionRepo.open: a row with a new default id, not yet disconnected
ClientSessionRepo_open(rows, id) == Put(rows, id, FALSE)

\* ClientSessionRepo.close: disconnected_at is set on the row of that id,
\* nothing is done when there is none
ClientSessionRepo_close(rows, id) ==
    IF id \in DOMAIN rows THEN [rows EXCEPT ![id] = TRUE] ELSE rows

\* the variables the connection steps below leave alone
SessFrame ==
    UNCHANGED <<regvars, livevars, subvars, wsopen, sent, rel_task, rel_reply,
                logvars, clivars, resubvars, histvars,
                graphvars, seedvars, tcvars>>

\* _handshake with a well-formed hello: a uuid4 session_id, the client
\* registered, the welcome sent
accept_hello(c) ==
    /\ session_id[c] = 0
    /\ next_uuid <= MaxUuid
    /\ session_id' = [session_id EXCEPT ![c] = next_uuid]
    /\ next_uuid' = next_uuid + 1
    /\ UNCHANGED <<db_sessions, ended>>
    /\ SessFrame

\* a hello read by the message loop, Router._handle_hello: a session row of a
\* default id is written; when the session raises nothing is
hello_in_loop(c, dbok) ==
    /\ session_id[c] # 0
    /\ next_uuid <= MaxUuid
    /\ next_uuid' = next_uuid + 1
    /\ db_sessions' = IF dbok THEN ClientSessionRepo_open(db_sessions, next_uuid)
                      ELSE db_sessions
    /\ UNCHANGED <<session_id, ended>>
    /\ SessFrame

\* the finally of _connection_handler, after a close or an error of the
\* connection: the client is unregistered and the row of its session_id closed
handler_finally(c, dbok) ==
    /\ session_id[c] # 0
    /\ db_sessions' = IF dbok THEN ClientSessionRepo_close(db_sessions, session_id[c])
                      ELSE db_sessions
    /\ ended' = ended \cup {session_id[c]}
    /\ session_id' = [session_id EXCEPT ![c] = 0]
    /\ UNCHANGED next_uuid
    /\ SessFrame

InitSess ==
    /\ kind = "role"
    /\ InitStore
    /\ InitConns

NextSess ==
    \/ \E c \in Conns : accept_hello(c)
    \/ \E c \in Conns, dbok \in BOOLEAN : hello_in_loop(c, dbok)
    \/ \E c \in Conns, dbok \in BOOLEAN : handler_finally(c, dbok)

SpecSess == InitSess /\ [][NextSess]_vars

\* C18: the session_id of every connection past its handshake has a session
\* row, open while the connection lasts; the row of every session_id whose
\* connection has ended is marked closed; a closed row belongs to an ended
\* connection, and no row is ever removed.
SessionRowOpenedThenClosed ==
    /\ \A c \in Conns :
          session_id[c] # 0
          => session_id[c] \in DOMAIN db_sessions /\ ~db_sessions[session_id[c]]
    /\ \A id \in ended : id \in DOMAIN db_sessions /\ db_sessions[id]
    /\ \A id \in DOMAIN db_sessions : db_sessions[id] => id \in ended

\* --------------------------------------------------------- AsyncClient
\* AsyncClient.is_connected
is_connected == _ws = "open" /\ _connected

\* the variables the client's steps leave alone
ServerFrame ==
    UNCHANGED <<regvars, livevars, subvars, wsopen, sent, rel_task, rel_reply,
                logvars, sessvars, auto_reconnect, histvars,
                graphvars, seedvars, tcvars>>

\* and no listener starts or ends, the reconnect delay is as it was
CliFrame == ServerFrame /\ UNCHANGED <<listener_req, _reconnect_delay>>

\* the socket and its session on the server are as they were
SameSession == UNCHANGED <<server_subs, sub_frames>>

\* the socket is gone: the server unregisters the session, frames are lost
SessionOver == server_subs' = {} /\ sub_frames' = {}

\* AsyncClient.start: _connect and the handshake, then the receive task
start ==
    /\ _recv_task = "none"
    /\ ~_stopped
    /\ attempts < MaxAttempts
    /\ attempts' = attempts + 1
    /\ _ws' = "open"
    /\ ws_gen' = ws_gen + 1
    /\ _connected' = TRUE
    /\ _recv_task' = "recv"
    /\ _reconnect_delay' = RECONNECT_BASE_DELAY
    /\ UNCHANGED <<_stopped, _pending, future, req, outcome, inflight, stop_pc,
                   stop_gen, listener_req>>
    /\ UNCHANGED resubvars
    /\ ServerFrame

\* request() from the pending entry on: the entry is added and the message
\* written; a write to a socket that is not open raises the transport's
\* ConnectionClosed, the finally pops the entry and the exception leaves
\* request() as it is
write_request(id) ==
    IF _ws = "open"
    THEN /\ _pending' = _pending \cup {id}
         /\ future' = [future EXCEPT ![id] = "pending"]
         /\ inflight' = inflight \cup {id}
         /\ req' = [req EXCEPT ![id] = "awaiting"]
         /\ UNCHANGED outcome
    ELSE /\ req' = [req EXCEPT ![id] = "done"]
         /\ outcome' = [outcome EXCEPT ![id] = "ConnectionClosed"]
         /\ UNCHANGED <<_pending, future, inflight>>

\* request(), called with a message of the protocol constructors: it waits
\* for _connected when is_connected is false, then writes
request(id) ==
    /\ req[id] = "idle"
    /\ IF ~is_connected /\ ~_connected
       THEN /\ req' = [req EXCEPT ![id] = "wait_connected"]
            /\ UNCHANGED <<_pending, future, inflight, outcome>>
       ELSE write_request(id)
    /\ UNCHANGED <<_ws, _connected, _stopped, _recv_task, stop_pc, attempts,
                   ws_gen, stop_gen>>
    /\ UNCHANGED resubvars
    /\ CliFrame

\* wait_until_connected returns: _connected was set
wait_until_connected(id) ==
    /\ req[id] = "wait_connected"
    /\ _connected
    /\ write_request(id)
    /\ UNCHANGED <<_ws, _connected, _stopped, _recv_task, stop_pc, attempts,
                   ws_gen, stop_gen>>
    /\ UNCHANGED resubvars
    /\ CliFrame

\* wait_until_connected times out: asyncio.TimeoutError leaves request()
wait_until_connected_timeout(id) ==
    /\ req[id] = "wait_connected"
    /\ ~_connected
    /\ req' = [req EXCEPT ![id] = "done"]
    /\ outcome' = [outcome EXCEPT ![id] = "asyncio.TimeoutError"]
    /\ UNCHANGED <<_ws, _connected, _stopped, _recv_task, _pending, future,
                   inflight, stop_pc, attempts, ws_gen, stop_gen>>
    /\ UNCHANGED resubvars
    /\ CliFrame

\* request() resumes on its future: the result of an ok frame, ServerError
\* for an error frame, or the exception stop() set; the finally pops the entry
request_return(id) ==
    /\ req[id] = "awaiting"
    /\ future[id] \in {"ok", "error", "ConnectionError"}
    /\ outcome' = [outcome EXCEPT ![id] =
                     CASE future[id] = "ok" -> "result"
                       [] future[id] = "error" -> "ServerError"
                       [] OTHER -> "ConnectionError"]
    /\ _pending' = _pending \ {id}
    /\ req' = [req EXCEPT ![id] = "done"]
    /\ UNCHANGED <<_ws, _connected, _stopped, _recv_task, future, inflight,
                   stop_pc, attempts, ws_gen, stop_gen>>
    /\ UNCHANGED resubvars
    /\ CliFrame

\* asyncio.wait_for times out in request(): the future is cancelled,
\* TimeoutError raised and the entry popped
request_timeout(id) ==
    /\ req[id] = "awaiting"
    /\ future[id] = "pending"
    /\ future' = [future EXCEPT ![id] = "cancelled"]
    /\ outcome' = [outcome EXCEPT ![id] = "TimeoutError"]
    /\ _pending' = _pending \ {id}
    /\ req' = [req EXCEPT ![id] = "done"]
    /\ UNCHANGED <<_ws, _connected, _stopped, _recv_task, inflight, stop_pc,
                   attempts, ws_gen, stop_gen>>
    /\ UNCHANGED resubvars
    /\ CliFrame

\* the top of _receive_loop: while not self._stopped
loop_head == IF _stopped THEN "done" ELSE "recv"

\* _receive_loop reads an ok or error frame, _handle_message resolves the
\* pending request of that id when there is one
recv_reply(id, type) ==
    /\ _recv_task = "recv"
    /\ _ws = "open"
    /\ id \in inflight
    /\ inflight' = inflight \ {id}
    /\ future' = IF id \in _pending /\ future[id] = "pending"
                 THEN [future EXCEPT ![id] = type] ELSE future
    /\ _recv_task' = loop_head
    /\ UNCHANGED <<_ws, _connected, _stopped, _pending, req, outcome, stop_pc,
                   attempts, ws_gen, stop_gen>>
    /\ UNCHANGED resubvars
    /\ CliFrame

\* the server or the network closes the socket
transport_close ==
    /\ _ws = "open"
    /\ _ws' = "closed"
    /\ inflight' = {}
    /\ SessionOver
    /\ UNCHANGED <<_connected, _stopped, _recv_task, _pending, future, req,
                   outcome, stop_pc, attempts, ws_gen, stop_gen, _subscriptions>>
    /\ CliFrame

\* _receive_loop, recv raises: _connected is cleared; on ConnectionClosed of
\* a client that is not stopped and reconnects, _reconnect starts its sleep;
\* else the loop ends
recv_raises(is_close) ==
    /\ _recv_task = "recv"
    /\ is_close <=> _ws = "closed"
    /\ _connected' = FALSE
    /\ _recv_task' = IF is_close /\ ~_stopped /\ auto_reconnect
                     THEN "sleep" ELSE "done"
    /\ UNCHANGED <<_ws, _stopped, _pending, future, req, outcome, inflight,
                   stop_pc, attempts, ws_gen, stop_gen>>
    /\ UNCHANGED resubvars
    /\ CliFrame

backoffNoCap(delay) == delay * RECONNECT_MULTIPLIER

\* _reconnect, the next delay: the multiple of the last, at most the maximum
backoff(delay) ==
    IF delay * RECONNECT_MULTIPLIER < RECONNECT_MAX_DELAY
    THEN delay * RECONNECT_MULTIPLIER ELSE RECONNECT_MAX_DELAY

\* _reconnect, the sleep is over: the delay is doubled and _connect called,
\* which clears _connected and opens a socket
reconnect_wake ==
    /\ _recv_task = "sleep"
    /\ attempts < MaxAttempts
    /\ attempts' = attempts + 1
    /\ _reconnect_delay' = backoff(_reconnect_delay)
    /\ _connected' = FALSE
    /\ _recv_task' = "connecting"
    /\ UNCHANGED <<_ws, _stopped, _pending, future, req, outcome, inflight,
                   stop_pc, ws_gen, stop_gen, listener_req>>
    /\ UNCHANGED resubvars
    /\ ServerFrame

\* the top of _reconnect's loop after a failed attempt: while not
\* self._stopped, else back to _receive_loop's break
reconnect_head == IF _stopped THEN "done" ELSE "sleep"

\* _connect, ws_asyncio.connect returns or raises: a new socket becomes _ws
\* and the hello is written, or _reconnect logs the failure
connect_returns(ok) ==
    /\ _recv_task = "connecting"
    /\ IF ok
       THEN /\ _ws' = "open"
            /\ ws_gen' = ws_gen + 1
            /\ inflight' = {}
            /\ SessionOver
            /\ _recv_task' = "welcome"
       ELSE /\ _recv_task' = reconnect_head
            /\ SameSession
            /\ UNCHANGED <<_ws, ws_gen, inflight>>
    /\ UNCHANGED <<_connected, _stopped, _pending, future, req, outcome,
                   stop_pc, attempts, stop_gen, _subscriptions>>
    /\ CliFrame

resubscribeNone(subs) == {}

\* _connect, after the welcome: a subscribe frame is written for every
\* project in _subscriptions
resubscribe(subs) == subs

\* _connect, the wait for the welcome: on a welcome _connected is set, the
\* subscriptions are sent again and a new receive task replaces this one; a
\* timeout, a closed socket or another frame raises, the socket is left as
\* it is and _reconnect logs the failure
welcome_returns(ok) ==
    /\ _recv_task = "welcome"
    /\ ok => _ws = "open"
    /\ IF ok
       THEN /\ _connected' = TRUE
            /\ _reconnect_delay' = RECONNECT_BASE_DELAY
            /\ sub_frames' = resubscribe(_subscriptions)
            /\ _recv_task' = loop_head
       ELSE /\ _recv_task' = reconnect_head
            /\ UNCHANGED <<_connected, sub_frames, _reconnect_delay>>
    /\ UNCHANGED <<_ws, _stopped, _pending, future, req, outcome, inflight,
                   stop_pc, attempts, ws_gen, stop_gen, _subscriptions, server_subs,
                   listener_req>>
    /\ ServerFrame

\* stop() from the cancel on: a receive task that is not done is cancelled
\* and awaited, every pending request rejected with ConnectionError and the
\* map cleared
cancel_and_reject ==
    /\ _recv_task' = IF _recv_task = "none" THEN "none" ELSE "done"
    /\ future' = [i \in MsgIds |->
                    IF i \in _pending /\ future[i] = "pending"
                    THEN "ConnectionError" ELSE future[i]]
    /\ _pending' = {}
    /\ stop_pc' = "done"

\* stop(): _stopped is set; with an open socket the bye is written, which
\* stop awaits; else stop goes on to the cancel
stop ==
    /\ stop_pc = "idle"
    /\ _stopped' = TRUE
    /\ IF _ws = "open"
       THEN /\ stop_pc' = "bye"
            /\ stop_gen' = ws_gen
            /\ UNCHANGED <<_recv_task, future, _pending>>
       ELSE /\ cancel_and_reject
            /\ UNCHANGED stop_gen
    /\ UNCHANGED <<_ws, _connected, req, outcome, inflight, attempts, ws_gen>>
    /\ UNCHANGED resubvars
    /\ CliFrame

\* stop(), the bye is written or the write raised: self._ws.close() is
\* called on the socket that is _ws by now, which stop awaits; after a raise
\* stop goes on to the cancel
stop_bye_sent ==
    /\ stop_pc = "bye"
    /\ IF _ws = "open"
       THEN /\ stop_pc' = "close"
            /\ stop_gen' = ws_gen
            /\ UNCHANGED <<_recv_task, future, _pending>>
       ELSE /\ cancel_and_reject
            /\ UNCHANGED stop_gen
    /\ UNCHANGED <<_ws, _connected, _stopped, req, outcome, inflight, attempts,
                   ws_gen>>
    /\ UNCHANGED resubvars
    /\ CliFrame

\* stop(), close() returns: the socket it was called on is closed, then the
\* cancel
stop_closed ==
    /\ stop_pc = "close"
    /\ IF stop_gen = ws_gen
       THEN _ws' = "closed" /\ inflight' = {} /\ SessionOver
       ELSE UNCHANGED <<_ws, inflight>> /\ SameSession
    /\ cancel_and_reject
    /\ UNCHANGED <<_connected, _stopped, req, outcome, attempts, ws_gen, stop_gen,
                   _subscriptions>>
    /\ CliFrame

\* _receive_loop reads an event frame; _handle_message awaits
\* _dispatch_event, which awaits the listener, which awaits a request()
recv_event(id) ==
    /\ _recv_task = "recv"
    /\ is_connected
    /\ listener_req = 0
    /\ req[id] = "idle"
    /\ write_request(id)
    /\ listener_req' = id
    /\ _recv_task' = "dispatch"
    /\ UNCHANGED <<_ws, _connected, _stopped, stop_pc, attempts, ws_gen, stop_gen,
                   _reconnect_delay>>
    /\ UNCHANGED resubvars
    /\ ServerFrame

\* the listener's request() has returned or raised: the listener returns, or
\* _dispatch_event catches and logs its exception; _handle_message returns
\* and the loop goes on
listener_returns ==
    /\ _recv_task = "dispatch"
    /\ req[listener_req] = "done"
    /\ listener_req' = 0
    /\ _recv_task' = loop_head
    /\ UNCHANGED <<_ws, _connected, _stopped, _pending, future, req, outcome,
                   inflight, stop_pc, attempts, ws_gen, stop_gen, _reconnect_delay>>
    /\ UNCHANGED resubvars
    /\ ServerFrame

InitCli ==
    /\ kind = "role"
    /\ InitStore
    /\ InitServer
    /\ \E ar \in BOOLEAN : InitClient(ar)

NextCli ==
    \/ start
    \/ \E id \in MsgIds : request(id)
    \/ \E id \in MsgIds : wait_until_connected(id)
    \/ \E id \in MsgIds : wait_until_connected_timeout(id)
    \/ \E id \in MsgIds : request_return(id)
    \/ \E id \in MsgIds : request_timeout(id)
    \/ \E id \in MsgIds, type \in {"ok", "error"} : recv_reply(id, type)
    \/ transport_close
    \/ \E is_close \in BOOLEAN : recv_raises(is_close)
    \/ reconnect_wake
    \/ \E ok \in BOOLEAN : connect_returns(ok)
    \/ \E ok \in BOOLEAN : welcome_returns(ok)
    \/ stop
    \/ stop_bye_sent
    \/ stop_closed
    \/ \E id \in MsgIds : recv_event(id)
    \/ listener_returns

SpecCli == InitCli /\ [][NextCli]_vars

\* C19: a call of request() ends with the result of its ok frame, with
\* ServerError for its error frame, with TimeoutError when its future was
\* still pending, or with ConnectionError; its entry is then out of the
\* pending map, and an end by timeout leaves the socket and _connected as
\* they were.
RequestEndsOneOfFour ==
    [][ \A id \in MsgIds :
          (req[id] # "done" /\ req'[id] = "done")
          => /\ outcome'[id] \in {"result", "ServerError", "TimeoutError",
                                  "ConnectionError"}
             /\ outcome'[id] = "result" => future[id] = "ok"
             /\ outcome'[id] = "ServerError" => future[id] = "error"
             /\ outcome'[id] = "TimeoutError"
                   => future[id] = "pending" /\ _ws' = _ws /\ _connected' = _connected
             /\ id \notin _pending'
      ]_vars

\* C22: while a listener awaits a request whose answer is on the open socket
\* of a client that is not stopped, the receive loop is at its recv, reading;
\* and when the listener has ended, with a result or an exception, the loop
\* is at its head again.
ListenersNeverBlockLoop ==
    /\ [](( /\ listener_req # 0 /\ listener_req \in inflight
             /\ _ws = "open" /\ ~_stopped )
           => _recv_task = "recv")
    /\ [][ (listener_req # 0 /\ listener_req' = 0) => _recv_task' = loop_head ]_vars

\* the connection of the client alone: no request, no listener
NextBackoff ==
    \/ start
    \/ transport_close
    \/ \E is_close \in BOOLEAN : recv_raises(is_close)
    \/ reconnect_wake
    \/ \E ok \in BOOLEAN : connect_returns(ok)
    \/ \E ok \in BOOLEAN : welcome_returns(ok)
    \/ stop
    \/ stop_bye_sent
    \/ stop_closed

SpecBackoff == InitCli /\ [][NextBackoff]_vars

\* C23: the reconnect delay is 1 s before any attempt and always between
\* 1 s and 60 s; the delay of a sleep is followed, when the attempt that ends
\* the sleep fails, by a sleep of twice that delay or of 60 s if twice is
\* more; the delay goes down only when a connect succeeds, and then to 1 s.
BackoffDoublesToCap ==
    /\ [](/\ _reconnect_delay >= RECONNECT_BASE_DELAY
          /\ _reconnect_delay <= RECONNECT_MAX_DELAY
          /\ attempts = 0 => _reconnect_delay = 1)
    /\ [][ /\ (_recv_task = "sleep" /\ _recv_task' = "connecting")
              => _reconnect_delay' =
                    IF 2 * _reconnect_delay > 60 THEN 60 ELSE 2 * _reconnect_delay
           /\ (_recv_task \in {"connecting", "welcome"} /\ _recv_task' = "sleep")
              => _reconnect_delay' = _reconnect_delay
           /\ (~_connected /\ _connected') => _reconnect_delay' = 1
           /\ _reconnect_delay' < _reconnect_delay => (~_connected /\ _connected')
         ]_vars

\* C23 witness: after attempts that failed one after the other the client
\* sleeps the maximum delay, and a later connect has not yet reset it
SleepsAtCap ==
    /\ _recv_task = "sleep"
    /\ _reconnect_delay = 60
    /\ attempts = MaxAttempts

\* C20: once stop() has been called no connection attempt starts, and when
\* stop() has returned the receive task with its reconnect loop is over and
\* the client is not connected.
NoAttemptAfterStop ==
    /\ [][ _stopped => attempts' = attempts ]_vars
    /\ [](stop_pc = "done" => (_recv_task \in {"none", "done"} /\ ~is_connected))

\* ------------------------------------------- AsyncClient, reconnecting
\* AsyncClient.subscribe on a connected client whose loop is reading: the
\* server subscribes the session and answers ok, the project is remembered
client_subscribe(p) ==
    /\ is_connected /\ _recv_task = "recv" /\ ~_stopped
    /\ server_subs' = server_subs \cup {p}
    /\ _subscriptions' = _subscriptions \cup {p}
    /\ UNCHANGED <<sub_frames, _ws, _connected, _stopped, _recv_task, _pending,
                   future, req, outcome, inflight, stop_pc, attempts, ws_gen,
                   stop_gen>>
    /\ CliFrame

\* AsyncClient.unsubscribe, likewise
client_unsubscribe(p) ==
    /\ is_connected /\ _recv_task = "recv" /\ ~_stopped
    /\ server_subs' = server_subs \ {p}
    /\ _subscriptions' = _subscriptions \ {p}
    /\ UNCHANGED <<sub_frames, _ws, _connected, _stopped, _recv_task, _pending,
                   future, req, outcome, inflight, stop_pc, attempts, ws_gen,
                   stop_gen>>
    /\ CliFrame

\* the server's message loop reads a subscribe frame written by _connect:
\* Router._handle_subscribe
server_handles_subscribe(p) ==
    /\ p \in sub_frames
    /\ _ws = "open"
    /\ sub_frames' = sub_frames \ {p}
    /\ server_subs' = server_subs \cup {p}
    /\ UNCHANGED <<_subscriptions, _ws, _connected, _stopped, _recv_task,
                   _pending, future, req, outcome, inflight, stop_pc, attempts,
                   ws_gen, stop_gen>>
    /\ CliFrame

\* a client with auto_reconnect, never stopped, and a server that can be
\* reached: a connect succeeds, the welcome comes when the socket is still
\* open, requests are answered; the socket drops a bounded number of times
NextCliLive ==
    \/ start
    \/ \E p \in Projects : client_subscribe(p)
    \/ \E p \in Projects : client_unsubscribe(p)
    \/ attempts < MaxAttempts /\ transport_close
    \/ recv_raises(TRUE)
    \/ reconnect_wake
    \/ connect_returns(TRUE)
    \/ welcome_returns(_ws = "open")
    \/ \E p \in Projects : server_handles_subscribe(p)

\* the event loop runs a task that can run, a sleep ends, the server answers
FairCliLive ==
    /\ WF_vars(recv_raises(TRUE))
    /\ WF_vars(reconnect_wake)
    /\ WF_vars(connect_returns(TRUE))
    /\ WF_vars(welcome_returns(_ws = "open"))
    /\ WF_vars(\E p \in Projects : server_handles_subscribe(p))

InitCliLive ==
    /\ kind = "role"
    /\ InitStore
    /\ InitServer
    /\ InitClient(TRUE)

SpecCliLive == InitCliLive /\ [][NextCliLive]_vars /\ FairCliLive

\* SyncClient.subscribe on a connected client: _run submits the subscribe
\* frame to AsyncClient.request; the server subscribes the session and
\* answers ok. AsyncClient.subscribe is not called
SyncClient_subscribe(p) ==
    /\ is_connected /\ _recv_task = "recv" /\ ~_stopped
    /\ server_subs' = server_subs \cup {p}
    /\ UNCHANGED <<_subscriptions, sub_frames, _ws, _connected, _stopped,
                   _recv_task, _pending, future, req, outcome, inflight,
                   stop_pc, attempts, ws_gen, stop_gen>>
    /\ CliFrame

\* SyncClient.unsubscribe, likewise
SyncClient_unsubscribe(p) ==
    /\ is_connected /\ _recv_task = "recv" /\ ~_stopped
    /\ server_subs' = server_subs \ {p}
    /\ UNCHANGED <<_subscriptions, sub_frames, _ws, _connected, _stopped,
                   _recv_task, _pending, future, req, outcome, inflight,
                   stop_pc, attempts, ws_gen, stop_gen>>
    /\ CliFrame

\* the AsyncClient of a SyncClient, driven through the SyncClient's methods
\* and through its own
NextSync ==
    \/ NextCliLive
    \/ \E p \in Projects : SyncClient_subscribe(p)
    \/ \E p \in Projects : SyncClient_unsubscribe(p)

SpecSync == InitCliLive /\ [][NextSync]_vars /\ FairCliLive

\* C39: a project subscribed through SyncClient.subscribe is remembered by
\* the client, so that it is subscribed again after a reconnect, and a
\* project removed through SyncClient.unsubscribe is remembered no longer.
SyncSubscriptionRemembered ==
    [][ \A p \in Projects :
          /\ SyncClient_subscribe(p) => p \in _subscriptions'
          /\ SyncClient_unsubscribe(p) => p \notin _subscriptions' ]_vars

\* C21: when the socket of a started client has dropped, the client is in
\* time connected again on a later socket, hence under a new session, with
\* its receive loop reading, and the server has subscribed that session to
\* every project the client remembers.
ReconnectsAndResubscribes ==
    \A g \in 1 .. MaxAttempts :
        (ws_gen = g /\ _ws = "closed" /\ _recv_task = "recv")
        ~> (/\ is_connected
            /\ _recv_task = "recv"
            /\ ws_gen > g
            /\ _subscriptions \subseteq server_subs)

\* C21 witness: on its second socket or a later one the client is connected
\* and its session holds the project subscribed before the drop
ResubscribedAfterDrop ==
    /\ ws_gen > 1
    /\ is_connected /\ _recv_task = "recv"
    /\ sub_frames = {}
    /\ "P" \in _subscriptions
    /\ _subscriptions \subseteq server_subs


====
